---- MODULE Spec2Model ----
(***************************************************************************)
(* Carbon-savings aggregation of the green_app backend: the per-user       *)
(* DailyCarbonProgress rows, the denormalised user totals and the          *)
(* MonthlySummary rows, as written by the maintenance scripts under        *)
(* green_moment_backend_api/scripts.                                       *)
(*                                                                         *)
(* Carbon values are whole grams.  A date is a day index counted from the  *)
(* first day of the first modelled year; the calendar is scaled down to    *)
(* DaysPerMonth days a month and MonthsPerYear months a year.              *)
(***************************************************************************)
EXTENDS Integers, Sequences, FiniteSets, Bags, TLC

\* ------------------------------------------------------------------ bounds
DaysPerMonth == 2
MonthsPerYear == 2
LastDate == 4
MaxChores == 3

UserSeq == <<"u1">>
Users == {UserSeq[i] : i \in 1..Len(UserSeq)}
Dates == 0..LastDate
SavedVals == {20}
Leagues == <<"bronze", "silver", "gold", "emerald", "diamond">>

\* ---------------------------------------------------------------- calendar
DayOf(dt) == (dt % DaysPerMonth) + 1
MonthOf(dt) == ((dt \div DaysPerMonth) % MonthsPerYear) + 1
YearOf(dt) == dt \div (DaysPerMonth * MonthsPerYear)
MonthKey(dt) == <<YearOf(dt), MonthOf(dt)>>
SameMonth(a, b) == MonthKey(a) = MonthKey(b)

\* ------------------------------------------------------------------- state
VARIABLES
    today,      \* date.today()
    chores,     \* bag of Chore rows: [user_id, date, saved]
    progress,   \* bag of DailyCarbonProgress rows
    users,      \* User rows, by id
    summaries,  \* bag of MonthlySummary rows
    user_tasks, \* set of UserTask rows
    calc,       \* the chore-savings calculators: last event and totals
    fix_run,    \* a fix_cumulative_totals run between its reads and its commit
    csv,        \* rows of logs/actual_carbon_intensity.csv, in file order
    est,        \* the last chore a savings calculator worked on, and what it got
    sched,      \* the last run of the daily scheduler and how far it got
    region_csv, \* one regional generation file: its row of each timestamp
    runs,       \* the pipeline and weather runs that are between their read and write
    gen_csv     \* the generator tracking file: its header and its rows, cell by cell

vars == <<today, chores, progress, users, summaries, user_tasks, calc, fix_run, csv, est,
          sched, region_csv, runs, gen_csv>>

\* ----------------------------------------------------------------- helpers
RECURSIVE SetToSortedSeq(_)
SetToSortedSeq(S) ==
    IF S = {} THEN <<>>
    ELSE LET m == CHOOSE x \in S : \A y \in S : x <= y
         IN <<m>> \o SetToSortedSeq(S \ {m})

RECURSIVE SumFn(_)
SumFn(f) ==
    IF DOMAIN f = {} THEN 0
    ELSE LET x == CHOOSE y \in DOMAIN f : TRUE
         IN f[x] + SumFn([y \in DOMAIN f \ {x} |-> f[y]])

\* Sum of field(row) over the rows of a bag, copies counted.
BagSum(B, field(_)) == SumFn([x \in BagToSet(B) |-> B[x] * field(x)])

BagFilter(B, P(_)) == [x \in {y \in BagToSet(B) : P(y)} |-> B[x]]

SetMax(S) == CHOOSE x \in S : \A y \in S : y <= x

LeagueIndex(l) == CHOOSE i \in 1..Len(Leagues) : Leagues[i] = l

\* Chores of one user, and of one user on one date.
UserChores(u) == BagFilter(chores, LAMBDA c : c.user_id = u)
ChoreDates(u) == {c.date : c \in BagToSet(UserChores(u))}
ChoresOn(u, dt) == BagFilter(chores, LAMBDA c : c.user_id = u /\ c.date = dt)

\* Sum of the calculator's output over the chores of one date.
DailyCarbon(u, dt) == BagSum(ChoresOn(u, dt), LAMBDA c : c.saved)

ProgressRow(u, dt, daily, cum) ==
    [user_id |-> u, date |-> dt, daily_carbon_saved |-> daily,
     cumulative_carbon_saved |-> cum]

NoRow == [user_id |-> "none"]

\* The most recent row of the same user and month strictly before dt.
PreviousProgress(rs, u, dt) ==
    LET cand == {r \in BagToSet(rs) :
                    /\ r.user_id = u
                    /\ YearOf(r.date) = YearOf(dt)
                    /\ MonthOf(r.date) = MonthOf(dt)
                    /\ r.date < dt}
    IN IF cand = {} THEN NoRow
       ELSE CHOOSE r \in cand : \A q \in cand : q.date <= r.date

\* ------------------------------------------------ migrate_historical_carbon
\* The month rule of the rebuild: the 1st of a month resets the running
\* total; any other day adds to the latest earlier row of the same month,
\* which the session's autoflush makes visible to the query.
CumulativeTotalNoCarry(rs, u, dt, daily) == daily

CumulativeTotalAcrossMonths(rs, u, dt, daily) ==
    LET cand == {r \in BagToSet(rs) : r.user_id = u /\ r.date < dt}
        prev == CHOOSE r \in cand : \A q \in cand : q.date <= r.date
    IN IF cand = {} THEN daily ELSE prev.cumulative_carbon_saved + daily

CumulativeTotal(rs, u, dt, daily) ==
    IF DayOf(dt) = 1 THEN daily
    ELSE LET prev == PreviousProgress(rs, u, dt)
         IN IF prev # NoRow THEN prev.cumulative_carbon_saved + daily
            ELSE daily

\* delete(DailyCarbonProgress).where(user_id == user.id)
ClearProgressKeep(rs0, u) == rs0

ClearProgressOfAll(rs0, u) == EmptyBag

ClearProgress(rs0, u) == BagFilter(rs0, LAMBDA r : r.user_id # u)

\* State of the loop over sorted(chores_by_date) after its first n dates.
RECURSIVE MigrateDays(_, _, _, _)
MigrateDays(rs0, u, ds, n) ==
    IF n = 0
    THEN [rows |-> ClearProgress(rs0, u),
          month_data |-> <<>>,
          total |-> 0]
    ELSE LET prev == MigrateDays(rs0, u, ds, n - 1)
             dt == ds[n]
             daily == DailyCarbon(u, dt)
             cum == CumulativeTotal(prev.rows, u, dt, daily)
         IN [rows |-> prev.rows (+) SetToBag({ProgressRow(u, dt, daily, cum)}),
             month_data |-> (MonthKey(dt) :> cum) @@ prev.month_data,
             total |-> prev.total + daily]

\* thresholds of _create_monthly_summaries, in tenths (0.1, 0.5, 0.7, 1.0),
\* for bronze, silver, gold, emerald.
HistoricalThresholds == <<1, 5, 7, 10>>

\* The last league of the threshold table whose threshold the value reaches.
HistoricalLeague(carbon_saved) ==
    LET ok == {i \in 1..Len(HistoricalThresholds) :
                  carbon_saved * 10 >= HistoricalThresholds[i]}
    IN IF ok = {} THEN "bronze" ELSE Leagues[SetMax(ok)]

_is_higher_league(league1, league2) == LeagueIndex(league1) > LeagueIndex(league2)

SummaryRow(u, key, total, start, end, upgraded) ==
    [user_id |-> u, month |-> key[2], year |-> key[1],
     total_carbon_saved |-> total, league_at_month_start |-> start,
     league_at_month_end |-> end, league_upgraded |-> upgraded]

\* The MonthlySummary rows of one (user, month, year).
SummariesOf(sums, u, key) ==
    BagFilter(sums, LAMBDA m : m.user_id = u /\ m.year = key[1] /\ m.month = key[2])

KeyNum(key) == key[1] * (MonthsPerYear + 1) + key[2]

SortedKeys(md) ==
    LET nums == SetToSortedSeq({KeyNum(k) : k \in DOMAIN md})
    IN [i \in 1..Len(nums) |-> CHOOSE k \in DOMAIN md : KeyNum(k) = nums[i]]

\* State of the loop of _create_monthly_summaries after its first k months.
\* scalar_one_or_none raises when two summaries of the month exist.
RECURSIVE SummaryLoop(_, _, _, _, _)
SummaryLoop(sums0, u, md, keys, k) ==
    IF k = 0
    THEN [summaries |-> sums0, previous_league |-> "bronze", raised |-> FALSE]
    ELSE LET prev == SummaryLoop(sums0, u, md, keys, k - 1)
             key == keys[k]
             league_at_end == HistoricalLeague(md[key])
             league_upgraded == league_at_end # prev.previous_league
             existing == SummariesOf(prev.summaries, u, key)
             row == SummaryRow(u, key, md[key], prev.previous_league,
                               league_at_end, league_upgraded)
         IN IF prev.raised THEN prev
            ELSE IF key = MonthKey(today) THEN prev
            ELSE IF BagCardinality(existing) > 1
                 THEN [prev EXCEPT !.raised = TRUE]
            ELSE [summaries |-> (prev.summaries (-) existing) (+) SetToBag({row}),
                  previous_league |-> league_at_end,
                  raised |-> FALSE]

\* user.current_league = the best league any month of month_data reaches.
BestLeague(md) ==
    LET idx == {LeagueIndex(HistoricalLeague(md[k])) : k \in DOMAIN md}
    IN IF idx = {} THEN "bronze" ELSE Leagues[SetMax(idx)]

\* migrate_user_carbon on the session state db, as migrate_all_users commits
\* it.  failAt is the position in the sorted dates at which the calculator
\* raises (Len + 1: it never does); the caller catches the exception and
\* the commit that follows keeps what the session held at that point.
migrate_user_carbon(db, u, failAt) ==
    LET ds == SetToSortedSeq(ChoreDates(u))
        done == MigrateDays(db.progress, u, ds, Len(ds))
        md == done.month_data
        sl == SummaryLoop(db.summaries, u, md, SortedKeys(md), Len(SortedKeys(md)))
        usr == [db.users[u] EXCEPT
                   !.total_carbon_saved = done.total,
                   !.current_month_carbon_saved =
                       IF MonthKey(today) \in DOMAIN md THEN md[MonthKey(today)]
                       ELSE @]
    IN IF ds = <<>> THEN db
       ELSE IF failAt <= Len(ds)
            THEN [db EXCEPT !.progress = MigrateDays(db.progress, u, ds, failAt - 1).rows]
       ELSE [progress |-> done.rows,
             users |-> [db.users EXCEPT ![u] =
                          IF sl.raised THEN usr
                          ELSE [usr EXCEPT !.current_league = BestLeague(md)]],
             summaries |-> sl.summaries]

\* migrate_all_users: every user in one session, one commit at the end.
RECURSIVE MigrateUsers(_, _, _)
MigrateUsers(db, us, failAt) ==
    IF us = <<>> THEN db
    ELSE MigrateUsers(migrate_user_carbon(db, Head(us), failAt[Head(us)]),
                      Tail(us), failAt)

FailPoints(u) == 1..(Cardinality(ChoreDates(u)) + 1)
NoFailure == [u \in Users |-> Cardinality(ChoreDates(u)) + 1]

Database == [progress |-> progress, users |-> users, summaries |-> summaries]

Commit(db) ==
    /\ progress' = db.progress
    /\ users' = db.users
    /\ summaries' = db.summaries

\* ------------------------------------------------- daily aggregation (4.5)
\* Month-boundary rule of the data model: seeded from the day's value on the
\* 1st, otherwise the previous row of the month plus the day's value.
MonthBoundaryRule(rs, u, dt, daily) ==
    LET prev == PreviousProgress(rs, u, dt)
    IN IF DayOf(dt) = 1 \/ prev = NoRow THEN daily
       ELSE prev.cumulative_carbon_saved + daily

RowsOn(rs, u, dt) == BagFilter(rs, LAMBDA r : r.user_id = u /\ r.date = dt)

\* Rows of the user in the month of dt dated after dt, oldest first.
LaterDates(rs, u, dt) ==
    SetToSortedSeq({r.date : r \in {q \in BagToSet(rs) :
        q.user_id = u /\ SameMonth(q.date, dt) /\ q.date > dt}})

\* Cascade: the running total of the first n later dates recomputed.
RECURSIVE Cascade(_, _, _, _)
Cascade(rs, u, ds, n) ==
    IF n = 0 THEN rs
    ELSE LET prev == Cascade(rs, u, ds, n - 1)
             old == RowsOn(prev, u, ds[n])
             new == [r \in {[q EXCEPT !.cumulative_carbon_saved =
                                MonthBoundaryRule(prev (-) old, u, ds[n],
                                                  q.daily_carbon_saved)]
                             : q \in BagToSet(old)} |-> 1]
         IN (prev (-) old) (+) new

\* The latest running total of the user's rows in the month of dt.
LatestCumulative(rs, u, dt) ==
    LET inMonth == {r \in BagToSet(rs) : r.user_id = u /\ SameMonth(r.date, dt)}
        last == CHOOSE r \in inMonth : \A q \in inMonth : q.date <= r.date
    IN IF inMonth = {} THEN 0 ELSE last.cumulative_carbon_saved

HasRowsInMonth(rs, u, dt) ==
    \E r \in BagToSet(rs) : r.user_id = u /\ SameMonth(r.date, dt)

\* Month rollover: the summary of the month that ended the day before dt.
FinalizeMonth(db, u, dt) ==
    LET key == MonthKey(dt - 1)
        total == LatestCumulative(db.progress, u, dt - 1)
        existing == SummariesOf(db.summaries, u, key)
        league == db.users[u].current_league
        updated == [m \in {[q EXCEPT !.total_carbon_saved = total]
                            : q \in BagToSet(existing)} |-> 1]
    IN IF existing = EmptyBag
       THEN db.summaries (+) SetToBag({SummaryRow(u, key, total, league, league, FALSE)})
       ELSE (db.summaries (-) existing) (+) updated

\* A date with no events keeps no row (4.5, 8: rows exist for dates with data).
calculate_user_daily_carbon(db, u, dt) ==
    LET daily == DailyCarbon(u, dt)
        old == RowsOn(db.progress, u, dt)
        kept == db.progress (-) old
        row == ProgressRow(u, dt, daily, MonthBoundaryRule(kept, u, dt, daily))
        later == LaterDates(kept, u, dt)
        rows == IF ChoresOn(u, dt) = EmptyBag THEN db.progress
                ELSE Cascade(kept (+) SetToBag({row}), u, later, Len(later))
        usr == [db.users[u] EXCEPT
                   !.total_carbon_saved =
                       BagSum(BagFilter(rows, LAMBDA r : r.user_id = u),
                              LAMBDA r : r.daily_carbon_saved),
                   !.current_month_carbon_saved =
                       IF HasRowsInMonth(rows, u, today)
                       THEN LatestCumulative(rows, u, today) ELSE @]
    IN [progress |-> rows,
        users |-> [db.users EXCEPT ![u] = usr],
        summaries |-> IF DayOf(dt) = 1 /\ dt > 0 THEN FinalizeMonth(db, u, dt)
                      ELSE db.summaries]

DailyAggregation ==
    /\ \E u \in Users, dt \in 0..today :
          Commit(calculate_user_daily_carbon(Database, u, dt))
    /\ UNCHANGED <<today, chores, user_tasks, calc, fix_run, csv, est, sched, region_csv,
                   runs, gen_csv>>

\* ------------------------------------------------------ fix_cumulative_carbon
UserProgress(rs, u) == BagFilter(rs, LAMBDA r : r.user_id = u)

\* The rows of a bag as ORDER BY date returns them.
RECURSIVE OrderedRows(_)
OrderedRows(B) ==
    IF B = EmptyBag THEN <<>>
    ELSE LET r == CHOOSE x \in BagToSet(B) : \A y \in BagToSet(B) : x.date <= y.date
         IN <<r>> \o OrderedRows(B (-) SetToBag({r}))

RECURSIVE SeqToBag(_)
SeqToBag(sq) ==
    IF sq = <<>> THEN EmptyBag ELSE SetToBag({Head(sq)}) (+) SeqToBag(Tail(sq))

Abs(x) == IF x < 0 THEN -x ELSE x

FixLoopKeep(es, n) ==
    [entries |-> SubSeq(es, 1, n), current_month |-> 0, cumulative |-> 0]

\* State of the loop over progress_entries after its first n entries.  The
\* month test compares the month number alone; current_month 0 is None.
\* On whole grams abs(difference) > 0.001 is difference # 0.
RECURSIVE FixLoop(_, _)
FixLoop(es, n) ==
    IF n = 0 THEN [entries |-> <<>>, current_month |-> 0, cumulative |-> 0]
    ELSE LET prev == FixLoop(es, n - 1)
             entry == es[n]
             cumulative ==
                 IF prev.current_month # MonthOf(entry.date)
                 THEN entry.daily_carbon_saved
                 ELSE prev.cumulative + entry.daily_carbon_saved
             fixed ==
                 IF Abs(entry.cumulative_carbon_saved - cumulative) > 0
                 THEN [entry EXCEPT !.cumulative_carbon_saved = cumulative]
                 ELSE entry
         IN [entries |-> Append(prev.entries, fixed),
             current_month |-> MonthOf(entry.date),
             cumulative |-> cumulative]

\* The body of the loop over user_ids for one user.
FixUser(db, u) ==
    LET es == OrderedRows(UserProgress(db.progress, u))
        fixed == FixLoop(es, Len(es)).entries
        current_month_entries ==
            SelectSeq(fixed, LAMBDA e : MonthOf(e.date) = MonthOf(today)
                                        /\ YearOf(e.date) = YearOf(today))
    IN IF es = <<>> THEN db
       ELSE [db EXCEPT
               !.progress = (@ (-) UserProgress(db.progress, u)) (+) SeqToBag(fixed),
               !.users[u].current_month_carbon_saved =
                   IF current_month_entries # <<>>
                   THEN current_month_entries[Len(current_month_entries)]
                            .cumulative_carbon_saved
                   ELSE @]

RECURSIVE FixUsers(_, _)
FixUsers(db, us) ==
    IF us = <<>> THEN db ELSE FixUsers(FixUser(db, Head(us)), Tail(us))

\* One session, one commit after the last user; an exception before the
\* commit leaves the session and rolls everything back.
fix_cumulative_totals ==
    \/ /\ Commit(FixUsers(Database, UserSeq))
       /\ UNCHANGED <<today, chores, user_tasks, calc, fix_run, csv, est, sched, region_csv,
                   runs, gen_csv>>
    \/ UNCHANGED vars

\* ---------------------------------------------------------- overlapping runs
\* The rebuild and the repair one after the other, in either order.
SerialFixFirst(failAt) ==
    MigrateUsers(FixUsers(Database, UserSeq), UserSeq, failAt)

SerialFixLast(failAt) ==
    FixUsers(MigrateUsers(Database, UserSeq, failAt), UserSeq)

\* No fix_cumulative_totals run is between its reads and its commit.
NoRun == [phase |-> "idle"]

\* What a commit of the rebuild means to a fix_cumulative_totals run that has
\* read its rows and not yet committed: the rows it holds are deleted.  The
\* states the two runs reach one after the other, in either order, from the
\* state the rebuild started in are kept for comparison.
Overlapped(run, failAt) ==
    IF run.phase # "read" THEN run
    ELSE [run EXCEPT
            !.migrations = IF @ < 2 THEN @ + 1 ELSE @,
            !.deleted = @ \cup {u \in Users : ChoreDates(u) # {}},
            !.serial = {SerialFixFirst(failAt), SerialFixLast(failAt)},
            !.at = today]

migrate_all_users ==
    /\ \E failAt \in [Users -> 1..(LastDate + 2)] :
          /\ \A u \in Users : failAt[u] \in FailPoints(u)
          /\ Commit(MigrateUsers(Database, UserSeq, failAt))
          /\ fix_run' = Overlapped(fix_run, failAt)
    /\ UNCHANGED <<today, chores, user_tasks, calc, csv, est, sched, region_csv,
                   runs, gen_csv>>


\* fix_cumulative_totals up to the end of its queries (L24-39): the session
\* holds the rows it has read.
FixRead ==
    /\ fix_run.phase # "read"
    /\ fix_run' = [phase |-> "read",
                   entries |-> [u \in Users |-> OrderedRows(UserProgress(progress, u))],
                   migrations |-> 0, deleted |-> {}, serial |-> {}, at |-> today]
    /\ UNCHANGED <<today, chores, progress, users, summaries, user_tasks, calc, csv, est, sched, region_csv,
                   runs, gen_csv>>

\* Positions of the held rows of u whose running total the loop changes.
ChangedEntries(run, u) ==
    LET es == run.entries[u]
        fixed == FixLoop(es, Len(es)).entries
    IN {i \in 1..Len(es) : fixed[i] # es[i]}

\* What the flush at commit writes from the held rows: an UPDATE by primary
\* key of every changed row, and the user's cached value.
RECURSIVE FlushUsers(_, _, _)
FlushUsers(db, run, us) ==
    IF us = <<>> THEN db
    ELSE LET u == Head(us)
             es == run.entries[u]
             fixed == FixLoop(es, Len(es)).entries
             current_month_entries ==
                 SelectSeq(fixed, LAMBDA e : MonthOf(e.date) = MonthOf(today)
                                             /\ YearOf(e.date) = YearOf(today))
             next ==
                 IF es = <<>> THEN db
                 ELSE [db EXCEPT
                         !.progress = IF ChangedEntries(run, u) = {} THEN @
                                      ELSE (@ (-) SeqToBag(es)) (+) SeqToBag(fixed),
                         !.users[u].current_month_carbon_saved =
                             IF current_month_entries # <<>>
                             THEN current_month_entries[Len(current_month_entries)]
                                      .cumulative_carbon_saved
                             ELSE @]
         IN FlushUsers(next, run, Tail(us))

\* The rest of fix_cumulative_totals (L46-77).  An UPDATE of a row that a
\* rebuild has deleted in the meantime matches no row: the flush raises
\* StaleDataError and the transaction is rolled back.
FixCommit ==
    /\ fix_run.phase = "read"
    /\ LET stale == \E u \in fix_run.deleted : ChangedEntries(fix_run, u) # {}
           db == IF stale THEN Database ELSE FlushUsers(Database, fix_run, UserSeq)
       IN /\ Commit(db)
          /\ fix_run' = [phase |-> "done",
                         judged |-> fix_run.migrations = 1 /\ fix_run.at = today,
                         serial |-> fix_run.serial,
                         result |-> db]
    /\ UNCHANGED <<today, chores, user_tasks, calc, csv, est, sched, region_csv,
                   runs, gen_csv>>

\* --------------------------------------------------- recalculate_current_month
MonthStart(dt) == dt - (DayOf(dt) - 1)

recalculate_every_month(db, u) ==
    [db EXCEPT !.users[u].current_month_carbon_saved =
        BagSum(BagFilter(db.progress, LAMBDA r : r.user_id = u),
               LAMBDA r : r.daily_carbon_saved)]

recalculate_current_month(db, u) ==
    [db EXCEPT !.users[u].current_month_carbon_saved =
        BagSum(BagFilter(db.progress,
                         LAMBDA r : r.user_id = u /\ r.date >= MonthStart(today)),
               LAMBDA r : r.daily_carbon_saved)]

\* restore_correct_carbon: the same sum from the first day of today's month.
restore_carbon_from_daily_progress(db, u) ==
    LET month_start == MonthStart(today)
        actual_carbon ==
            BagSum(BagFilter(db.progress,
                             LAMBDA r : r.user_id = u /\ r.date >= month_start),
                   LAMBDA r : r.daily_carbon_saved)
    IN [db EXCEPT !.users[u].current_month_carbon_saved = actual_carbon]

\* One run of either repair script for one user.
RecalculateCurrentMonth ==
    /\ \E u \in Users :
          \/ Commit(recalculate_current_month(Database, u))
          \/ Commit(restore_carbon_from_daily_progress(Database, u))
    /\ UNCHANGED <<today, chores, user_tasks, calc, fix_run, csv, est, sched, region_csv,
                   runs, gen_csv>>

\* ---------------------------------------------------- recalculate_august_carbon
\* The script is tied to one month, the second month of the first year here.
AugStart == DaysPerMonth
AugLast == 2 * DaysPerMonth - 1
AugEnd == IF AugLast < today THEN AugLast ELSE today

\* Chore.start_time <= aug_end compares against midnight of aug_end, so the
\* chores of aug_end itself are left out.
AugustChoreDates(u) == {d \in ChoreDates(u) : AugStart <= d /\ d < AugEnd}

\* The loop over the days of the month; the days in failed raise and are
\* skipped by the except clause.
RECURSIVE AugustLoop(_, _, _, _)
AugustLoop(db, u, ds, failed) ==
    IF ds = <<>> THEN db
    ELSE AugustLoop(IF Head(ds) \in failed THEN db
                    ELSE calculate_user_daily_carbon(db, u, Head(ds)),
                    u, Tail(ds), failed)

recalculate_august_for_user ==
    /\ \E u \in Users, failed \in SUBSET Dates :
          /\ failed \subseteq AugustChoreDates(u)
          /\ Commit(recalculate_current_month(
                 AugustLoop(Database, u, SetToSortedSeq(AugustChoreDates(u)), failed), u))
    /\ UNCHANGED <<today, chores, user_tasks, calc, fix_run, csv, est, sched, region_csv,
                   runs, gen_csv>>

\* ------------------------------------------------------ carbon_based_promotion
\* promotion_thresholds, in grams, for bronze, silver, gold, emerald.
PromotionThresholds == <<30, 300, 500, 1000>>

league_progression(l) ==
    IF l = "diamond" THEN "diamond" ELSE Leagues[LeagueIndex(l) + 1]

\* Sum of daily_carbon_saved over the user's rows dated from..to.
DailySumBetween(rs, u, from, to) ==
    BagSum(BagFilter(rs, LAMBDA r : r.user_id = u /\ r.date >= from /\ r.date <= to),
           LAMBDA r : r.daily_carbon_saved)

\* CarbonBasedPromotion.check_and_promote_user; scalar_one_or_none raises on
\* two summaries of the month and nothing is committed.
carbon_check_and_promote_user(db, u) ==
    LET last_month_end == MonthStart(today) - 1
        last_month_start == MonthStart(last_month_end)
        last_month_carbon ==
            DailySumBetween(db.progress, u, last_month_start, last_month_end)
        old_league == db.users[u].current_league
        promoted ==
            /\ old_league # "diamond"
            /\ last_month_carbon >= PromotionThresholds[LeagueIndex(old_league)]
        new_league == IF promoted THEN league_progression(old_league) ELSE old_league
        key == MonthKey(last_month_end)
        existing == SummariesOf(db.summaries, u, key)
        updated == [m \in {[q EXCEPT !.total_carbon_saved = last_month_carbon,
                                     !.league_at_month_end = new_league,
                                     !.league_upgraded = promoted]
                            : q \in BagToSet(existing)} |-> 1]
    IN IF BagCardinality(existing) > 1 THEN db
       ELSE [progress |-> db.progress,
             users |-> [db.users EXCEPT
                          ![u].current_league = new_league,
                          ![u].current_month_carbon_saved =
                              IF MonthOf(today) # MonthOf(last_month_end) THEN 0 ELSE @],
             summaries |->
                 IF existing = EmptyBag
                 THEN db.summaries (+) SetToBag({SummaryRow(u, key, last_month_carbon,
                                                old_league, new_league, promoted)})
                 ELSE (db.summaries (-) existing) (+) updated]

CarbonBasedPromotion ==
    /\ \E u \in Users : Commit(carbon_check_and_promote_user(Database, u))
    /\ UNCHANGED <<today, chores, user_tasks, calc, fix_run, csv, est, sched, region_csv,
                   runs, gen_csv>>

\* -------------------------------------------------------------------- tasks
\* Tasks seeded per league (none for diamond); the league service asks for
\* RequiredTasks completed ones.
TasksPerLeague == 3
RequiredTasks == 3
MaxLifetime == 80
LeagueSavings == {0, 20}

UserTaskRow(u, league, n, key) ==
    [user_id |-> u, task_id |-> <<league, n>>, month |-> key[2], year |-> key[1],
     completed |-> FALSE]

LeagueTasks(league) == IF league = "diamond" THEN {} ELSE 1..TasksPerLeague

MonthTasks(ts, u, key) ==
    {t \in ts : t.user_id = u /\ t.month = key[2] /\ t.year = key[1]}

\* ---------------------------------------------------- league_promotion_scheduler
\* The month the league service checks: the month that ended yesterday on
\* the 1st, the current month on any other day.
CheckedMonth == IF DayOf(today) = 1 THEN MonthKey(today - 1) ELSE MonthKey(today)

MonthChores(u, key) ==
    BagFilter(chores, LAMBDA c : c.user_id = u /\ MonthKey(c.date) = key)

\* total_carbon_saved of calculate_monthly_carbon_savings: the sum, over the
\* chores of the month, of the clamped saving of each, which the intensity
\* file decides (saving maps each chore to it).
MonthlyCarbonSavings(u, key, saving) ==
    BagSum(MonthChores(u, key), LAMBDA c : saving[c])

\* LeaguePromotionService.check_and_promote_user.
league_check_and_promote_user(db, ts, u, saving) ==
    LET key == CheckedMonth
        carbon == MonthlyCarbonSavings(u, key, saving)
        completed_tasks == Cardinality({t \in MonthTasks(ts, u, key) : t.completed})
        old_league == db.users[u].current_league
        promoted == completed_tasks >= RequiredTasks /\ old_league # "diamond"
        new_league == IF promoted THEN league_progression(old_league) ELSE old_league
        existing == SummariesOf(db.summaries, u, key)
        updated == [m \in {[q EXCEPT !.total_carbon_saved = carbon,
                                     !.league_at_month_end = new_league,
                                     !.league_upgraded = promoted]
                            : q \in BagToSet(existing)} |-> 1]
    IN IF BagCardinality(existing) > 1 THEN db
       ELSE [progress |-> db.progress,
             users |-> [db.users EXCEPT
                          ![u].current_league = new_league,
                          ![u].current_month_tasks_completed = 0,
                          ![u].total_carbon_saved = @ + carbon],
             summaries |->
                 IF existing = EmptyBag
                 THEN db.summaries (+) SetToBag({SummaryRow(u, key, carbon,
                                                new_league, new_league, promoted)})
                 ELSE (db.summaries (-) existing) (+) updated]

\* reset_user_tasks: the tasks of the user's league that the current month
\* does not have yet.
reset_user_tasks(db, ts, u) ==
    ts \cup {UserTaskRow(u, db.users[u].current_league, n, MonthKey(today))
                : n \in {i \in LeagueTasks(db.users[u].current_league) :
                           ~\E t \in MonthTasks(ts, u, MonthKey(today)) :
                               t.task_id = <<db.users[u].current_league, i>>}}

\* process_all_users for one user: the promotion check, then the task reset
\* unless the check raised.
LeaguePromotion ==
    /\ \E u \in Users :
       \E saving \in [BagToSet(MonthChores(u, CheckedMonth)) -> LeagueSavings] :
          LET raised == BagCardinality(SummariesOf(summaries, u, CheckedMonth)) > 1
              db == league_check_and_promote_user(Database, user_tasks, u, saving)
          IN /\ db.users[u].total_carbon_saved <= MaxLifetime
             /\ Commit(db)
             /\ user_tasks' = IF raised THEN user_tasks
                              ELSE reset_user_tasks(db, user_tasks, u)
    /\ UNCHANGED <<today, chores, calc, fix_run, csv, est, sched, region_csv,
                   runs, gen_csv>>

\* --------------------------------------------------------------- calculators
\* Intensities are whole grams CO2e per kWh, appliance power is in tenths of
\* a kW, a mean is the pair <<sum, count>>.
Cadence == 10
DefaultWorstCase == 600
MaxSamples == 3
MaxEvents == 2
Intensities == {100, 700}
Durations == {5, 10, 15, 20, 30}
Powers == {5, 10}
SampleSeqs == UNION {[1..n -> Intensities] : n \in 0..MaxSamples}

NoEvents == [events |-> 0]

WindowSum(samples, i, k) == SumFn([j \in i..(i + k - 1) |-> samples[j]])

\* a/b <= c/d and a/b = c/d for means with positive counts.
MeanLeq(m1, m2) == m1[1] * m2[2] <= m2[1] * m1[2]
MeanEq(m1, m2) == m1[1] * m2[2] = m2[1] * m1[2]

\* LeaguePromotionService._find_worst_continuous_period on the ordered
\* samples of the day.
_find_worst_continuous_period(samples, duration_minutes) ==
    LET slots_needed == (duration_minutes + 9) \div Cadence
        sums == {WindowSum(samples, i, slots_needed) :
                    i \in 1..(Len(samples) - slots_needed + 1)}
        worst_average == IF sums = {} THEN 0 ELSE SetMax(sums \cup {0})
    IN IF samples = <<>> THEN <<DefaultWorstCase, 1>>
       ELSE IF worst_average > 0 THEN <<worst_average, slots_needed>>
       ELSE <<DefaultWorstCase, 1>>

\* MonthlyCarbonCalculator.find_worst_period.  With periods_needed = 0 every
\* window is empty, its mean is NaN, and max(worst_avg, NaN) keeps 0.
find_worst_period(samples, duration_minutes) ==
    LET periods_needed == duration_minutes \div Cadence
        sums == {WindowSum(samples, i, periods_needed) :
                    i \in 1..(Len(samples) - periods_needed + 1)}
    IN IF samples = <<>> \/ periods_needed = 0 \/ sums = {} THEN <<0, 1>>
       ELSE <<SetMax(sums \cup {0}), periods_needed>>

RECURSIVE Gcd(_, _)
Gcd(a, b) == IF b = 0 THEN a ELSE Gcd(b, a % b)

RECURSIVE LcmUpTo(_)
LcmUpTo(n) == IF n <= 1 THEN 1 ELSE (LcmUpTo(n - 1) * n) \div Gcd(LcmUpTo(n - 1), n)

\* Savings are kept as numerators over 600 * WindowLcm (tenths of a kW,
\* minutes in an hour, and the count of the worst window), which is exact.
WindowLcm == LcmUpTo((SetMax(Durations) + 9) \div Cadence)

\* (worst_case_intensity - actual_carbon_intensity) * appliance_kw * duration_hours
carbon_saved(worst, actual, appliance_kw, duration_minutes) ==
    (worst[1] - actual * worst[2]) * (WindowLcm \div worst[2])
        * appliance_kw * duration_minutes

LeagueChoreSavingUnclamped(worst, actual, appliance_kw, duration_minutes) ==
    carbon_saved(worst, actual, appliance_kw, duration_minutes)

\* What calculate_monthly_carbon_savings adds to total_carbon_saved for a chore.
LeagueChoreSaving(worst, actual, appliance_kw, duration_minutes) ==
    LET saved == carbon_saved(worst, actual, appliance_kw, duration_minutes)
    IN IF saved > 0 THEN saved ELSE 0

\* MonthlyCarbonCalculator.calculate_chore_carbon_saved, the chore's own
\* interval having data.
calculate_chore_carbon_saved(worst, actual, appliance_kw, duration_minutes) ==
    LET saved == carbon_saved(worst, actual, appliance_kw, duration_minutes)
    IN IF saved > 0 THEN saved ELSE 0

Event(by, samples, d, actual, kw, worst, saved) ==
    [events |-> calc.events + 1, by |-> by, samples |-> samples, duration |-> d,
     actual |-> actual, kw |-> kw, worst |-> worst, saved |-> saved,
     before |-> IF calc.events = 0 THEN 0 ELSE calc.total,
     total |-> (IF calc.events = 0 THEN 0 ELSE calc.total) + saved]

\* One chore in the loop of calculate_monthly_carbon_savings.
LeagueChore ==
    /\ calc.events < MaxEvents
    /\ calc.events > 0 => calc.by = "league"
    /\ \E samples \in SampleSeqs, d \in Durations, actual \in Intensities, kw \in Powers :
          LET worst == _find_worst_continuous_period(samples, d)
          IN calc' = Event("league", samples, d, actual, kw, worst,
                           LeagueChoreSaving(worst, actual, kw, d))
    /\ UNCHANGED <<today, chores, progress, users, summaries, user_tasks, fix_run, csv, est, sched, region_csv,
                   runs, gen_csv>>

\* One chore in the loop of calculate_user_savings.
TemplateChore ==
    /\ calc.events < MaxEvents
    /\ calc.events > 0 => calc.by = "template"
    /\ \E samples \in SampleSeqs, d \in Durations, actual \in Intensities, kw \in Powers :
          LET worst == find_worst_period(samples, d)
          IN calc' = Event("template", samples, d, actual, kw, worst,
                           calculate_chore_carbon_saved(worst, actual, kw, d))
    /\ UNCHANGED <<today, chores, progress, users, summaries, user_tasks, fix_run, csv, est, sched, region_csv,
                   runs, gen_csv>>

\* --------------------------------------------------------- intensity series
\* Timestamps are minutes of one day; a row of the file is a timestamp and an
\* intensity in whole grams CO2e per kWh.
Tolerance == 60
DefaultIntensity == 500
MaxRows == 3
SampleTimes == {0, 9, 10, 80}
CsvRow(t, v) == [timestamp |-> t, intensity |-> v]
RECURSIVE LoadCarbonDataKeepFirst(_)
LoadCarbonDataKeepFirst(rows) ==
    IF rows = <<>> THEN <<>>
    ELSE LET prev == LoadCarbonDataKeepFirst(SubSeq(rows, 1, Len(rows) - 1))
             row == rows[Len(rows)]
         IN IF \E i \in DOMAIN prev : prev[i].timestamp = row.timestamp
            THEN prev ELSE Append(prev, row)

\* carbon_data after the reader loop of calculate_monthly_carbon_savings: a
\* dict keeps a key where it was first inserted and the value assigned last.
RECURSIVE LoadCarbonData(_)
LoadCarbonData(rows) ==
    IF rows = <<>> THEN <<>>
    ELSE LET prev == LoadCarbonData(SubSeq(rows, 1, Len(rows) - 1))
             row == rows[Len(rows)]
         IN IF \E i \in DOMAIN prev : prev[i].timestamp = row.timestamp
            THEN [i \in DOMAIN prev |->
                     IF prev[i].timestamp = row.timestamp THEN row ELSE prev[i]]
            ELSE Append(prev, row)

\* sorted(): rows in timestamp order, rows of equal timestamp in their order.
RECURSIVE SortRows(_)
SortRows(rows) ==
    IF rows = <<>> THEN <<>>
    ELSE LET i == CHOOSE k \in DOMAIN rows :
                      /\ \A j \in DOMAIN rows : rows[k].timestamp <= rows[j].timestamp
                      /\ \A j \in 1..(k - 1) : rows[j].timestamp # rows[k].timestamp
         IN <<rows[i]>> \o SortRows(SubSeq(rows, 1, i - 1) \o SubSeq(rows, i + 1, Len(rows)))

\* The intensities of rows, in their order.
Values(rows) == [i \in DOMAIN rows |-> rows[i].intensity]

\* ------------------------------------------------ interval intensity estimate
\* start_time.replace(minute=(start_time.minute // 10) * 10, second=0, ...)
RoundDown(t) == (t \div Cadence) * Cadence

\* The values current_time takes in the while loop, in order.
SteppedTimes(start_time, end_time) ==
    SetToSortedSeq({t \in RoundDown(start_time)..end_time :
                       t % Cadence = 0 /\ t <= end_time})

\* min(carbon_data.keys(), key=...): the first key, in dict order, at the
\* least distance from current_time.
ClosestIndex(carbon_data, current_time) ==
    CHOOSE i \in DOMAIN carbon_data :
        /\ \A j \in DOMAIN carbon_data :
              Abs(carbon_data[i].timestamp - current_time)
                  <= Abs(carbon_data[j].timestamp - current_time)
        /\ \A j \in 1..(i - 1) :
              Abs(carbon_data[j].timestamp - current_time)
                  # Abs(carbon_data[i].timestamp - current_time)

\* What one pass of the loop body appends to relevant_intensities.
Resolved(carbon_data, current_time) ==
    IF \E i \in DOMAIN carbon_data : carbon_data[i].timestamp = current_time
    THEN <<carbon_data[CHOOSE i \in DOMAIN carbon_data :
                           carbon_data[i].timestamp = current_time].intensity>>
    ELSE LET closest == carbon_data[ClosestIndex(carbon_data, current_time)]
         IN IF Abs(closest.timestamp - current_time) < Tolerance
            THEN <<closest.intensity>> ELSE <<>>

RECURSIVE relevant_intensities(_, _)
relevant_intensities(carbon_data, times) ==
    IF times = <<>> THEN <<>>
    ELSE relevant_intensities(carbon_data, SubSeq(times, 1, Len(times) - 1))
             \o Resolved(carbon_data, times[Len(times)])

\* LeaguePromotionService._calculate_period_carbon_intensity.  min() of no
\* keys raises ValueError, which happens as soon as the loop body runs on an
\* empty carbon_data.  The mean is the pair <<sum, count>>, stepped the
\* values current_time took in the loop body.
_calculate_period_carbon_intensity(carbon_data, start_time, end_time) ==
    LET times == SteppedTimes(start_time, end_time)
        values == relevant_intensities(carbon_data, times)
    IN IF times # <<>> /\ carbon_data = <<>>
       THEN [raised |-> TRUE, stepped |-> SubSeq(times, 1, 1), resolved |-> 0,
             mean |-> <<0, 1>>]
       ELSE IF values # <<>>
       THEN [raised |-> FALSE, stepped |-> times, resolved |-> Len(values),
             mean |-> <<SumFn(values), Len(values)>>]
       ELSE [raised |-> FALSE, stepped |-> times, resolved |-> 0,
             mean |-> <<DefaultIntensity, 1>>]

\* ------------------------------------------------------------ fix_x9_timestamps
\* A minute ending in 9 becomes the minute of its 10-minute slot.
convert_x9_to_x0(t) == IF t % Cadence = 9 THEN (t \div Cadence) * Cadence ELSE t

NoChore == [chores |-> 0]

\* fix_timestamps: every row converted, one row kept per timestamp (the
\* OrderedDict keeps the row assigned last), the rows written sorted.
FixTimestamps(rows) ==
    SortRows(LoadCarbonData(
        [i \in DOMAIN rows |-> CsvRow(convert_x9_to_x0(rows[i].timestamp),
                                      rows[i].intensity)]))

fix_timestamps ==
    /\ est = NoChore
    /\ csv # <<>>
    /\ csv' = FixTimestamps(csv)
    /\ UNCHANGED <<today, chores, progress, users, summaries, user_tasks, calc,
                   fix_run, est, sched, region_csv,
                   runs, gen_csv>>

\* ------------------------------------------------------ savings of one chore
\* Appliance power is in tenths of a kW.  The one listed appliance stands for
\* the table, "unlisted" for a type the table does not have.
APPLIANCE_POWER == [washing_machine |-> 20]
UsageEvents ==
    [start_time : {0, 5, 10}, end_time : {0, 10, 25, 90},
     duration_minutes : {10, 15}, appliance_type : {"washing_machine", "unlisted"}]

\* APPLIANCE_POWER.get(appliance_type, default)
PowerOf(appliance_type, default) ==
    IF appliance_type \in DOMAIN APPLIANCE_POWER
    THEN APPLIANCE_POWER[appliance_type] ELSE default

\* A fraction <<numerator, denominator>> in lowest terms.
Lowest(f) ==
    LET g == Gcd(Abs(f[1]), f[2])
    IN <<f[1] \div g, f[2] \div g>>

SavedFractionPerMinute(worst, actual, appliance_kw, duration_minutes) ==
    Lowest(<<(worst[1] * actual[2] - actual[1] * worst[2])
                 * appliance_kw * duration_minutes,
             worst[2] * actual[2] * 10>>)

\* (worst - actual) * appliance_kw * duration_hours for means <<sum, count>>,
\* as <<numerator, denominator>> with a positive denominator: 600 is tenths
\* of a kW times minutes of an hour.
SavedFraction(worst, actual, appliance_kw, duration_minutes) ==
    Lowest(<<(worst[1] * actual[2] - actual[1] * worst[2])
                 * appliance_kw * duration_minutes,
             worst[2] * actual[2] * 600>>)

\* max(0, carbon_saved)
ClampSaved(saved) == IF saved[1] > 0 THEN saved ELSE <<0, 1>>

\* worst_emissions - actual_emissions of calculate_chore_carbon_saved, each
\* being duration_hours * intensity * appliance_kw.
EmissionsDifference(worst, actual, appliance_kw, duration_minutes) ==
    Lowest(<<duration_minutes * worst[1] * appliance_kw * actual[2]
                 - duration_minutes * actual[1] * appliance_kw * worst[2],
             worst[2] * actual[2] * 600>>)

\* The body of the loop over chores in calculate_monthly_carbon_savings, the
\* file read before it included.
LeagueChoreResult(rows, chore) ==
    LET carbon_data == LoadCarbonData(rows)
        appliance_kw == PowerOf(chore.appliance_type, 10)
        actual == _calculate_period_carbon_intensity(
                      carbon_data, chore.start_time, chore.end_time)
        samples == Values(SortRows(carbon_data))
        worst == _find_worst_continuous_period(samples, chore.duration_minutes)
    IN [chores |-> 1, by |-> "league", chore |-> chore, series |-> carbon_data,
        samples |-> samples, raised |-> actual.raised, stepped |-> actual.stepped,
        resolved |-> actual.resolved,
        appliance_kw |-> appliance_kw, actual |-> actual.mean, worst |-> worst,
        saved |-> IF actual.raised THEN <<0, 1>>
                  ELSE ClampSaved(SavedFraction(worst, actual.mean, appliance_kw,
                                                chore.duration_minutes))]

\* carbon_data[chore.start_time:chore.end_time] on the sorted index: the rows
\* from start_time to end_time, both included.
RowsBetween(rows, start_time, end_time) ==
    SelectSeq(rows, LAMBDA r : start_time <= r.timestamp /\ r.timestamp <= end_time)

\* MonthlyCarbonCalculator.calculate_chore_carbon_saved on the frame that
\* load_carbon_data builds, which keeps every row of the file.  With no row
\* in the chore's interval it returns 0 before it has an estimate, which is
\* recorded as an estimate of 0.
TemplateChoreResult(rows, chore) ==
    LET carbon_data == SortRows(rows)
        appliance_kw == PowerOf(chore.appliance_type, 0)
        chore_carbon == RowsBetween(carbon_data, chore.start_time, chore.end_time)
        actual == IF chore_carbon = <<>> THEN <<0, 1>>
                  ELSE <<SumFn(Values(chore_carbon)), Len(chore_carbon)>>
        samples == Values(carbon_data)
        worst == find_worst_period(samples, chore.duration_minutes)
    IN [chores |-> 1, by |-> "template", chore |-> chore, series |-> carbon_data,
        samples |-> samples, raised |-> FALSE, stepped |-> <<>>,
        resolved |-> Len(chore_carbon),
        appliance_kw |-> appliance_kw, actual |-> actual, worst |-> worst,
        saved |-> IF chore_carbon = <<>> THEN <<0, 1>>
                  ELSE ClampSaved(EmissionsDifference(worst, actual, appliance_kw,
                                                      chore.duration_minutes))]

\* One chore of one run is followed per file.
LeagueChoreSavings ==
    /\ est = NoChore
    /\ \E chore \in UsageEvents : est' = LeagueChoreResult(csv, chore)
    /\ UNCHANGED <<today, chores, progress, users, summaries, user_tasks, calc,
                   fix_run, csv, sched, region_csv,
                   runs, gen_csv>>

TemplateChoreSavings ==
    /\ est = NoChore
    /\ \E chore \in UsageEvents : est' = TemplateChoreResult(csv, chore)
    /\ UNCHANGED <<today, chores, progress, users, summaries, user_tasks, calc,
                   fix_run, csv, sched, region_csv,
                   runs, gen_csv>>

\* A fetch of the intensity appends its row to the file.  The file is followed
\* up to the first run of a calculator on it.
AppendRow ==
    /\ est = NoChore
    /\ Len(csv) < MaxRows
    /\ \E t \in SampleTimes, v \in Intensities : csv' = Append(csv, CsvRow(t, v))
    /\ UNCHANGED <<today, chores, progress, users, summaries, user_tasks, calc,
                   fix_run, est, sched, region_csv,
                   runs, gen_csv>>

\* ------------------------------------------- monthly_carbon_calculator_template
\* Runs of the template calculator that are followed per month.
MaxFinalizations == 2

\* calculate_user_savings for the month before today's: the chores from the
\* first day of that month to the midnight that begins its last day, each
\* with the saving the intensity file gives it; the total is added to the
\* lifetime total and a summary row is added to the session.
calculate_user_savings(db, u, saving) ==
    LET last_day_previous == MonthStart(today) - 1
        first_day_previous == MonthStart(last_day_previous)
        month_chores == {c \in DOMAIN saving :
                            /\ c.user_id = u
                            /\ c.date >= first_day_previous
                            /\ c.date < last_day_previous}
        total_carbon_saved == SumFn([c \in month_chores |-> saving[c] * chores[c]])
        league == db.users[u].current_league
    IN IF month_chores = {} THEN db
       ELSE [progress |-> db.progress,
             users |-> [db.users EXCEPT ![u].total_carbon_saved = @ + total_carbon_saved],
             summaries |-> db.summaries
                 (+) SetToBag({SummaryRow(u, MonthKey(last_day_previous),
                                          total_carbon_saved, league, league, FALSE)})]

RECURSIVE SavingsOfUsers(_, _, _)
SavingsOfUsers(db, us, saving) ==
    IF us = <<>> THEN db
    ELSE SavingsOfUsers(calculate_user_savings(db, Head(us), saving), Tail(us), saving)

\* calculate_monthly_savings: every user in one session, one commit.
calculate_monthly_savings ==
    /\ \E saving \in [BagToSet(chores) -> LeagueSavings] :
          LET db == SavingsOfUsers(Database, UserSeq, saving)
          IN /\ \A u \in Users :
                   /\ db.users[u].total_carbon_saved <= MaxLifetime
                   /\ BagCardinality(SummariesOf(db.summaries, u,
                                                 MonthKey(MonthStart(today) - 1)))
                        <= MaxFinalizations
             /\ Commit(db)
    /\ UNCHANGED <<today, chores, user_tasks, calc, fix_run, csv, est, sched, region_csv,
                   runs, gen_csv>>

\* ------------------------------------------------------ carbon_daily_scheduler
yesterdayOfSameDay(d) == d

\* yesterday = date.today() - timedelta(days=1)
yesterday(d) == d - 1

RaiseSwallowed(raised) == "calculated"

\* The daily calculation re-raises what it catches, which ends the run.
AfterDaily(raised) == IF raised THEN "failed" ELSE "calculated"

RECURSIVE DailyForAllUsers(_, _, _)
DailyForAllUsers(db, us, dt) ==
    IF us = <<>> THEN db
    ELSE DailyForAllUsers(calculate_user_daily_carbon(db, Head(us), dt), Tail(us), dt)

RECURSIVE PromoteAllUsers(_, _)
PromoteAllUsers(db, us) ==
    IF us = <<>> THEN db
    ELSE PromoteAllUsers(carbon_check_and_promote_user(db, Head(us)), Tail(us))

\* run_daily_tasks up to the end of its first session: the calculation for
\* yesterday, which may raise; a run that raised has committed nothing.
run_daily_tasks ==
    /\ sched.phase # "calculated"
    /\ today > 0
    /\ \E raised \in BOOLEAN :
          /\ sched' = [phase |-> AfterDaily(raised), run_date |-> today,
                       calculated |-> yesterday(today), completed |-> ~raised,
                       promotion |-> FALSE, checked |-> <<>>]
          /\ Commit(IF raised THEN Database
                    ELSE DailyForAllUsers(Database, UserSeq, yesterday(today)))
    /\ UNCHANGED <<today, chores, user_tasks, calc, fix_run, csv, est, region_csv,
                   runs, gen_csv>>

\* run_daily_tasks from the test of the day of the month: the promotion check
\* on the 1st, for the month that ended yesterday, and nothing on other days.
promotion_check ==
    /\ sched.phase = "calculated"
    /\ sched' = [sched EXCEPT !.phase = "done",
                              !.promotion = DayOf(today) = 1,
                              !.checked = IF DayOf(today) = 1
                                          THEN MonthKey(MonthStart(today) - 1) ELSE @]
    /\ Commit(IF DayOf(today) = 1 THEN PromoteAllUsers(Database, UserSeq) ELSE Database)
    /\ UNCHANGED <<today, chores, user_tasks, calc, fix_run, csv, est, region_csv,
                   runs, gen_csv>>

\* run_for_date of the manual runner: whether it runs the promotion check.
should_run_promotion(target_date, force_promotion) ==
    DayOf(target_date + 1) = 1 \/ force_promotion

\* ---------------------------------------------------------- progress endpoint
\* GET /daily-carbon for a well-formed date: the values of the user's row of
\* the date, zeros when there is none; scalar_one_or_none raises on two rows.
get_daily_carbon(rs, u, target_date) ==
    LET daily_progress == RowsOn(rs, u, target_date)
    IN IF BagCardinality(daily_progress) > 1 THEN [status |-> 500]
       ELSE IF daily_progress # EmptyBag
       THEN LET r == CHOOSE x \in BagToSet(daily_progress) : TRUE
            IN [status |-> 200, date |-> target_date,
                carbon_saved |-> r.daily_carbon_saved,
                cumulative_carbon_saved |-> r.cumulative_carbon_saved]
       ELSE [status |-> 200, date |-> target_date,
             carbon_saved |-> 0, cumulative_carbon_saved |-> 0]

\* ------------------------------------------------------ live_pipeline_integrated
\* Three of the thirteen fuel types, two generating units, polls at two
\* timestamps; NET_P is in whole MW and a storage unit may report a net
\* inflow.
ALL_FUEL_TYPES == <<"Coal", "Solar", "Storage">>
UnitNames == {"unit1", "unit2"}
NetPowers == {0 - 1, 2}
MaxStamps == 2

\* row_data of update_regional_data for one region: NET_P summed by fuel
\* type, and Total_Generation summed over ALL_FUEL_TYPES.
RegionRow(timestamp, units) ==
    LET fuel_value == [i \in DOMAIN ALL_FUEL_TYPES |->
                          SumFn([n \in {x \in DOMAIN units :
                                           units[x].FUEL_TYPE = ALL_FUEL_TYPES[i]}
                                    |-> units[n].NET_P])]
    IN [Timestamp |-> timestamp,
        fuels |-> [f \in {ALL_FUEL_TYPES[i] : i \in DOMAIN ALL_FUEL_TYPES} |->
                      fuel_value[CHOOSE i \in DOMAIN ALL_FUEL_TYPES :
                                    ALL_FUEL_TYPES[i] = f]],
        Total_Generation |-> SumFn(fuel_value),
        AirTemperature |-> "None"]

\* The regional file a run leaves behind: file is what is on disk when the
\* run writes, existing_df what the run read, raised whether reading or
\* updating failed.  A missing file reads as no rows.
RegionFileAfter(file, existing_df, row_data, raised) ==
    IF existing_df = <<>> \/ raised
    THEN <<row_data>>
    ELSE IF \E i \in DOMAIN existing_df : existing_df[i].Timestamp = row_data.Timestamp
    THEN LET idx == CHOOSE i \in DOMAIN existing_df :
                       /\ existing_df[i].Timestamp = row_data.Timestamp
                       /\ \A j \in 1..(i - 1) :
                              existing_df[j].Timestamp # row_data.Timestamp
         IN [existing_df EXCEPT ![idx].fuels = row_data.fuels,
                                ![idx].Total_Generation = row_data.Total_Generation]
    ELSE Append(file, row_data)

\* update_regional_data run on its own: the row of the timestamp is updated
\* where the file has one and appended otherwise; a failure while reading or
\* updating leaves a new file.
update_regional_data ==
    /\ \E timestamp \in 0..(MaxStamps - 1) :
       \E units \in [UnitNames ->
                        [FUEL_TYPE : {ALL_FUEL_TYPES[i] : i \in DOMAIN ALL_FUEL_TYPES},
                         NET_P : NetPowers]] :
       \E raised \in BOOLEAN :
          region_csv' = RegionFileAfter(region_csv, region_csv,
                                        RegionRow(timestamp, units), raised)
    /\ UNCHANGED <<today, chores, progress, users, summaries, user_tasks, calc,
                   fix_run, csv, est, sched,
                   runs, gen_csv>>

\* ------------------------------------------------------------- task endpoints
\* Completed tasks that are followed at a time.
MaxCompleted == 3

\* POST /complete/{task_id}: the user's task of the current month is marked
\* completed and the monthly counter goes up by one; 404 when the month has
\* no such task and 400 when it is completed already change nothing.
complete_task ==
    /\ Cardinality({x \in user_tasks : x.completed}) < MaxCompleted
    /\ \E t \in user_tasks :
          /\ t.month = MonthOf(today)
          /\ t.year = YearOf(today)
          /\ ~t.completed
          /\ user_tasks' = (user_tasks \ {t}) \cup {[t EXCEPT !.completed = TRUE]}
          /\ users' = [users EXCEPT ![t.user_id].current_month_tasks_completed = @ + 1]
    /\ UNCHANGED <<today, chores, progress, summaries, calc, fix_run, csv, est, sched,
                   region_csv,
                   runs, gen_csv>>

\* POST /uncomplete/{task_id}: the task is marked not completed and the
\* counter goes down by one, not below zero.
uncomplete_task ==
    /\ \E t \in user_tasks :
          /\ t.month = MonthOf(today)
          /\ t.year = YearOf(today)
          /\ t.completed
          /\ user_tasks' = (user_tasks \ {t}) \cup {[t EXCEPT !.completed = FALSE]}
          /\ users' = [users EXCEPT ![t.user_id].current_month_tasks_completed =
                                       IF @ - 1 > 0 THEN @ - 1 ELSE 0]
    /\ UNCHANGED <<today, chores, progress, summaries, calc, fix_run, csv, est, sched,
                   region_csv,
                   runs, gen_csv>>

\* ------------------------------------------------------ convert_to_grams_co2e
GramsPerKg == 1000

\* The three UPDATE statements, each on the rows its WHERE clause selects.
ConvertUsers(us) ==
    [u \in DOMAIN us |->
        IF us[u].total_carbon_saved > 0 \/ us[u].current_month_carbon_saved > 0
        THEN [us[u] EXCEPT !.total_carbon_saved = @ * GramsPerKg,
                           !.current_month_carbon_saved = @ * GramsPerKg]
        ELSE us[u]]

ConvertProgress(rs) ==
    [r \in {IF x.daily_carbon_saved > 0 \/ x.cumulative_carbon_saved > 0
            THEN [x EXCEPT !.daily_carbon_saved = @ * GramsPerKg,
                           !.cumulative_carbon_saved = @ * GramsPerKg]
            ELSE x : x \in BagToSet(rs)} |-> 1]

ConvertSummaries(sums) ==
    [m \in {IF x.total_carbon_saved > 0
            THEN [x EXCEPT !.total_carbon_saved = @ * GramsPerKg]
            ELSE x : x \in BagToSet(sums)} |-> 1]

convert_committing_each_table(db, failAt) ==
    [users |-> IF failAt = 1 THEN db.users ELSE ConvertUsers(db.users),
     progress |-> IF failAt \in 1..2 THEN db.progress ELSE ConvertProgress(db.progress),
     summaries |-> IF failAt \in 1..3 THEN db.summaries
                   ELSE ConvertSummaries(db.summaries)]

\* convert_database_to_grams: one transaction over the three tables and the
\* column comments, committed at the end; the statement failAt raises (0:
\* none does) and the except clause rolls everything back.
convert_database_to_grams(db, failAt) ==
    IF failAt # 0 THEN db
    ELSE [users |-> ConvertUsers(db.users),
          progress |-> ConvertProgress(db.progress),
          summaries |-> ConvertSummaries(db.summaries)]

\* One run of the script on a database that still holds kilogram-scale values.
ConvertToGrams ==
    /\ \A u \in Users : /\ users[u].total_carbon_saved < GramsPerKg
                         /\ users[u].current_month_carbon_saved < GramsPerKg
    /\ \A r \in BagToSet(progress) : r.cumulative_carbon_saved < GramsPerKg
    /\ \A m \in BagToSet(summaries) : m.total_carbon_saved < GramsPerKg
    /\ \E failAt \in 0..4 : Commit(convert_database_to_grams(Database, failAt))
    /\ UNCHANGED <<today, chores, user_tasks, calc, fix_run, csv, est, sched, region_csv,
                   runs, gen_csv>>

\* ------------------------------------------------- overlapping ingestion runs
\* Two pipeline runs and one weather run on the same regional file.  Each
\* takes the lock for its read and again for its write, and holds nothing in
\* between.
Pipelines == {"p1", "p2"}
Procs == Pipelines \cup {"weather"}
NoRuns == [p \in Procs |-> [pc |-> "idle"]]

\* What the overlapping runs fetched: both units burn coal.
OverlapUnits == [UnitNames -> [FUEL_TYPE : {"Coal"}, NET_P : NetPowers]]

\* The regional average of the air temperature the weather run computed.
WeatherValues == {"20.5"}

\* A regional file left by an earlier run.
EarlierFile == <<RegionRow(0, [n \in UnitNames |-> [FUEL_TYPE |-> "Coal", NET_P |-> 2]])>>

\* update_regional_data up to the return of read_csv_with_lock, which may
\* raise.
pipeline_read_csv_with_lock(p) ==
    /\ runs[p].pc = "idle"
    /\ \E timestamp \in 0..(MaxStamps - 1) : \E units \in OverlapUnits :
       \E raised \in BOOLEAN :
          runs' = [runs EXCEPT ![p] = [pc |-> "read", existing_df |-> region_csv,
                                       row_data |-> RegionRow(timestamp, units),
                                       raised |-> raised]]
    /\ UNCHANGED <<today, chores, progress, users, summaries, user_tasks, calc,
                   fix_run, csv, est, sched, region_csv, gen_csv>>

\* update_regional_data from there to its end: one write_csv_with_lock.
pipeline_write_csv_with_lock(p) ==
    /\ runs[p].pc = "read"
    /\ region_csv' = RegionFileAfter(region_csv, runs[p].existing_df,
                                     runs[p].row_data, runs[p].raised)
    /\ runs' = [runs EXCEPT ![p].pc = "done"]
    /\ UNCHANGED <<today, chores, progress, users, summaries, user_tasks, calc,
                   fix_run, csv, est, sched, gen_csv>>

\* process_and_update_data for the region up to the return of
\* read_csv_with_lock; without a file the region is skipped.
weather_read_csv_with_lock ==
    /\ runs["weather"].pc = "idle"
    /\ region_csv # <<>>
    /\ \E value \in WeatherValues :
          runs' = [runs EXCEPT !["weather"] =
                      [pc |-> "read", df |-> region_csv, AirTemperature |-> value]]
    /\ UNCHANGED <<today, chores, progress, users, summaries, user_tasks, calc,
                   fix_run, csv, est, sched, region_csv, gen_csv>>

\* process_and_update_data from there: the last row it read gets the weather
\* values and the whole file is written.
weather_write_csv_with_lock ==
    /\ runs["weather"].pc = "read"
    /\ LET df == runs["weather"].df
           last_idx == Len(df)
       IN region_csv' = [df EXCEPT ![last_idx].AirTemperature =
                                      runs["weather"].AirTemperature]
    /\ runs' = [runs EXCEPT !["weather"].pc = "done"]
    /\ UNCHANGED <<today, chores, progress, users, summaries, user_tasks, calc,
                   fix_run, csv, est, sched, gen_csv>>

\* ---------------------------------------------------------- generator_tracking
\* Two generators, in sorted order, over three polls.  A cell of the file is
\* a value together with the dataframe column it was written from; the
\* header is the first line of the file.
GeneratorNames == <<"g1", "g2">>
MaxGenStamps == 3
NoFile == [header |-> <<>>, rows |-> <<>>]

sorted(cols) == SelectSeq(GeneratorNames, LAMBDA g : g \in cols)

\* to_csv of one dataframe row: its values in the order of columns.
CsvLine(columns, row) ==
    [k \in DOMAIN columns |-> [column |-> columns[k], value |-> row[columns[k]]]]

\* read_csv: each line is split by position and named by the header.
ParsedRow(file, i) ==
    [c \in {file.header[k] : k \in DOMAIN file.header} |->
        file.rows[i][CHOOSE k \in DOMAIN file.header : file.header[k] = c].value]

\* The file with the single row of a run that found no file or failed.
NewGeneratorFile(current_generators, timestamp) ==
    LET cols == <<"Timestamp">> \o sorted(DOMAIN current_generators)
                   \o <<"Total_Generation">>
        row_data == [c \in {cols[k] : k \in DOMAIN cols} |->
                        IF c = "Timestamp" THEN timestamp
                        ELSE IF c = "Total_Generation" THEN SumFn(current_generators)
                        ELSE current_generators[c]]
    IN [header |-> cols, rows |-> <<CsvLine(cols, row_data)>>]

\* The file update_generator_data leaves when it read file and did not fail.
GeneratorFileAfter(file, current_generators, timestamp) ==
    LET existing_generators == SelectSeq(file.header,
                                   LAMBDA c : c \notin {"Timestamp", "Total_Generation"})
        existing == {existing_generators[k] : k \in DOMAIN existing_generators}
        new_generators == DOMAIN current_generators \ existing
        \* existing_df.columns once the new generators have been added; with
        \* two generators a file that exists gains at most one
        columns == file.header \o sorted(new_generators)
        all_columns == <<"Timestamp">> \o sorted(existing \cup new_generators)
                          \o <<"Total_Generation">>
        row_data == [c \in {columns[k] : k \in DOMAIN columns} |->
                        IF c = "Timestamp" THEN timestamp
                        ELSE IF c = "Total_Generation" THEN SumFn(current_generators)
                        ELSE IF c \in DOMAIN current_generators
                        THEN current_generators[c] ELSE 0]
        widened(i) == [c \in {columns[k] : k \in DOMAIN columns} |->
                          IF c \in new_generators THEN 0 ELSE ParsedRow(file, i)[c]]
    IN IF \E i \in DOMAIN file.rows : ParsedRow(file, i)["Timestamp"] = timestamp
       THEN file
       ELSE IF new_generators # {}
       THEN [header |-> columns,
             rows |-> [i \in DOMAIN file.rows |-> CsvLine(columns, widened(i))]
                         \o <<CsvLine(columns, row_data)>>]
       ELSE [header |-> file.header,
             rows |-> Append(file.rows, CsvLine(all_columns, row_data))]

\* update_generator_data run on its own.
update_generator_data ==
    /\ \E timestamp \in 0..(MaxGenStamps - 1) :
       \E reporting \in SUBSET {GeneratorNames[k] : k \in DOMAIN GeneratorNames} \ {{}} :
       \E current_generators \in [reporting -> NetPowers] :
       \E raised \in BOOLEAN :
          gen_csv' = IF gen_csv = NoFile \/ raised
                     THEN NewGeneratorFile(current_generators, timestamp)
                     ELSE GeneratorFileAfter(gen_csv, current_generators, timestamp)
    /\ UNCHANGED <<today, chores, progress, users, summaries, user_tasks, calc,
                   fix_run, csv, est, sched, region_csv, runs>>

\* ------------------------------------------------------------ environment
ChoreRow(u, dt, saved) == [user_id |-> u, date |-> dt, saved |-> saved]

LogChore ==
    /\ BagCardinality(chores) < MaxChores
    /\ \E u \in Users, dt \in 0..today, saved \in SavedVals :
          chores' = chores (+) SetToBag({ChoreRow(u, dt, saved)})
    /\ UNCHANGED <<today, progress, users, summaries, user_tasks, calc, fix_run, csv, est, sched, region_csv,
                   runs, gen_csv>>

AdvanceDay ==
    /\ today < LastDate
    /\ sched.phase # "calculated"
    /\ today' = today + 1
    /\ UNCHANGED <<chores, progress, users, summaries, user_tasks, calc, fix_run, csv, est, sched, region_csv,
                   runs, gen_csv>>

NewUser ==
    [total_carbon_saved |-> 0, current_month_carbon_saved |-> 0,
     current_league |-> "bronze", current_month_tasks_completed |-> 0]

Init ==
    /\ today = 0
    /\ chores = EmptyBag
    /\ progress = EmptyBag
    /\ users = [u \in Users |-> NewUser]
    /\ summaries = EmptyBag
    /\ user_tasks = {}
    /\ calc = NoEvents
    /\ fix_run = NoRun
    /\ csv = <<>>
    /\ est = NoChore
    /\ sched = [phase |-> "idle"]
    /\ region_csv = <<>>
    /\ runs = NoRuns
    /\ gen_csv = NoFile

NextAgg ==
    \/ LogChore
    \/ AdvanceDay
    \/ DailyAggregation
    \/ migrate_all_users

SpecAgg == Init /\ [][NextAgg]_vars

Next ==
    \/ LogChore
    \/ AdvanceDay
    \/ DailyAggregation
    \/ migrate_all_users
    \/ fix_cumulative_totals
    \/ RecalculateCurrentMonth
    \/ recalculate_august_for_user
    \/ CarbonBasedPromotion

Spec == Init /\ [][Next]_vars

\* The rebuild running while a repair run is between its reads and its commit.
NextConc ==
    \/ LogChore
    \/ AdvanceDay
    \/ migrate_all_users
    \/ FixRead
    \/ FixCommit

SpecConc == Init /\ [][NextConc]_vars

\* Month rollover: the daily aggregation and the two promotions.
NextLeague ==
    \/ LogChore
    \/ AdvanceDay
    \/ DailyAggregation
    \/ CarbonBasedPromotion
    \/ LeaguePromotion

SpecLeague == Init /\ [][NextLeague]_vars

\* The two chore-savings calculators over every day of samples and chore.
NextCalc ==
    \/ LeagueChore
    \/ TemplateChore

SpecCalc == Init /\ [][NextCalc]_vars

\* The three month-end finalizers over logged chores.
NextFinal ==
    \/ LogChore
    \/ AdvanceDay
    \/ CarbonBasedPromotion
    \/ LeaguePromotion
    \/ calculate_monthly_savings

SpecFinal == Init /\ [][NextFinal]_vars

\* The daily scheduler over logged chores.
NextSched ==
    \/ LogChore
    \/ AdvanceDay
    \/ run_daily_tasks
    \/ promotion_check

SpecSched == Init /\ [][NextSched]_vars

\* The generation pipeline polling the grid operator.
NextGrid ==
    \/ update_regional_data

SpecGrid == Init /\ [][NextGrid]_vars

\* Users that hold any league when the scripts start, then rebuilds and
\* promotion checks.
InitLeagues ==
    /\ today = 0
    /\ chores = EmptyBag
    /\ progress = EmptyBag
    /\ users \in [Users -> {[NewUser EXCEPT !.current_league = Leagues[i]]
                              : i \in DOMAIN Leagues}]
    /\ summaries = EmptyBag
    /\ user_tasks = {}
    /\ calc = NoEvents
    /\ fix_run = NoRun
    /\ csv = <<>>
    /\ est = NoChore
    /\ sched = [phase |-> "idle"]
    /\ region_csv = <<>>
    /\ runs = NoRuns
    /\ gen_csv = NoFile

NextLeagues ==
    \/ LogChore
    \/ AdvanceDay
    \/ migrate_all_users
    \/ CarbonBasedPromotion

SpecLeagues == InitLeagues /\ [][NextLeagues]_vars

\* The task endpoints and the league service's promotion check.
NextTasks ==
    \/ AdvanceDay
    \/ LeaguePromotion
    \/ complete_task
    \/ uncomplete_task

SpecTasks == Init /\ [][NextTasks]_vars

\* The unit conversion run on the tables that rebuilds have filled.
NextGrams ==
    \/ LogChore
    \/ AdvanceDay
    \/ migrate_all_users
    \/ ConvertToGrams

SpecGrams == Init /\ [][NextGrams]_vars

\* Two pipeline runs and a weather run over a regional file that is missing
\* or holds the row of an earlier run.
InitOverlap ==
    /\ today = 0
    /\ chores = EmptyBag
    /\ progress = EmptyBag
    /\ users = [u \in Users |-> NewUser]
    /\ summaries = EmptyBag
    /\ user_tasks = {}
    /\ calc = NoEvents
    /\ fix_run = NoRun
    /\ csv = <<>>
    /\ est = NoChore
    /\ sched = [phase |-> "idle"]
    /\ region_csv \in {<<>>, EarlierFile}
    /\ runs = NoRuns
    /\ gen_csv = NoFile

NextOverlap ==
    \/ \E p \in Pipelines : pipeline_read_csv_with_lock(p)
    \/ \E p \in Pipelines : pipeline_write_csv_with_lock(p)
    \/ weather_read_csv_with_lock
    \/ weather_write_csv_with_lock

SpecOverlap == InitOverlap /\ [][NextOverlap]_vars

\* The generator tracker polling the grid operator.
NextGen ==
    \/ update_generator_data

SpecGen == Init /\ [][NextGen]_vars

NextSeries ==
    \/ AppendRow
    \/ fix_timestamps
    \/ LeagueChoreSavings
    \/ TemplateChoreSavings

SpecSeries == Init /\ [][NextSeries]_vars

\* ------------------------------------------------------------------ claims
\* The rows of the same user and month that are the latest before row r.
PreviousRows(rs, r) ==
    LET cand == {p \in BagToSet(rs) :
                    p.user_id = r.user_id /\ SameMonth(p.date, r.date) /\ p.date < r.date}
    IN {p \in cand : \A q \in cand : q.date <= p.date}

\* C1: every row dated after the 1st of its month has a running total equal
\* to the running total of the previous row of that month plus its own daily
\* value (its own daily value alone when the month has no earlier row).
PrefixSumInvariant ==
    \A r \in BagToSet(progress) :
        DayOf(r.date) > 1 =>
            /\ PreviousRows(progress, r) = {} =>
                   r.cumulative_carbon_saved = r.daily_carbon_saved
            /\ \A p \in PreviousRows(progress, r) :
                   r.cumulative_carbon_saved =
                       p.cumulative_carbon_saved + r.daily_carbon_saved

\* A row after the 1st whose month has an earlier row, both with savings.
PrefixSumWitness ==
    \E r \in BagToSet(progress) :
        /\ DayOf(r.date) > 1
        /\ r.daily_carbon_saved > 0
        /\ \E p \in PreviousRows(progress, r) : p.cumulative_carbon_saved > 0

\* C2: from every reachable state, running the rebuild twice in a row, or
\* the daily aggregation of one (user, date) twice in a row, with the chores
\* unchanged, leaves every row as the first run wrote it.
RerunIdempotent ==
    /\ LET once == MigrateUsers(Database, UserSeq, NoFailure)
       IN MigrateUsers(once, UserSeq, NoFailure).progress = once.progress
    /\ \A u \in Users, dt \in 0..today :
          LET once == calculate_user_daily_carbon(Database, u, dt)
          IN calculate_user_daily_carbon(once, u, dt).progress = once.progress

\* The stored rows are what the rebuild produces, with a carried total.
RerunWitness ==
    /\ progress = MigrateUsers(Database, UserSeq, NoFailure).progress
    /\ \E r \in BagToSet(progress) :
          r.cumulative_carbon_saved > r.daily_carbon_saved

\* C3: a row dated the 1st of a month has a running total equal to its own
\* daily value, whatever the previous month ended with.
MonthStartReset ==
    \A r \in BagToSet(progress) :
        DayOf(r.date) = 1 => r.cumulative_carbon_saved = r.daily_carbon_saved

\* A row on the 1st with savings, the day after a row of the month before
\* that ended with a different, positive running total.
MonthStartWitness ==
    \E r, p \in BagToSet(progress) :
        /\ DayOf(r.date) = 1
        /\ r.daily_carbon_saved > 0
        /\ p.user_id = r.user_id
        /\ p.date = r.date - 1
        /\ p.cumulative_carbon_saved > 0
        /\ p.cumulative_carbon_saved # r.daily_carbon_saved

\* Dates of the user whose stored daily value is not what the events of the
\* date give now: recomputing them changes the value.
StaleDates(u) ==
    {dt \in 0..today :
        /\ ChoresOn(u, dt) # EmptyBag
        /\ \E r \in BagToSet(RowsOn(progress, u, dt)) :
              r.daily_carbon_saved # DailyCarbon(u, dt)}

\* The running totals that rs can carry into dt: none, or the running total
\* of a row of the user dated before dt.
CarriedInto(rs, u, dt) ==
    {0} \cup {p.cumulative_carbon_saved :
                p \in {q \in BagToSet(rs) : q.user_id = u /\ q.date < dt}}

\* In rs the row of dt carries the recomputed value, and the running total of
\* every later row of the month is a total carried into dt plus the daily
\* values of the rows from dt to that row: it counts the recomputed value of
\* dt and not the value it replaced.
RecomputedAndCascaded(rs, u, dt) ==
    /\ \A r \in BagToSet(RowsOn(rs, u, dt)) : r.daily_carbon_saved = DailyCarbon(u, dt)
    /\ \A r \in BagToSet(rs) :
          (r.user_id = u /\ SameMonth(r.date, dt) /\ r.date > dt) =>
              \E base \in CarriedInto(rs, u, dt) :
                  r.cumulative_carbon_saved =
                      base + BagSum(BagFilter(rs, LAMBDA q :
                                        /\ q.user_id = u /\ SameMonth(q.date, dt)
                                        /\ q.date >= dt /\ q.date <= r.date),
                                    LAMBDA q : q.daily_carbon_saved)

\* The stored rows with the daily value of dt replaced and nothing else.
DailyReplaced(u, dt) ==
    [Database EXCEPT !.progress =
        [r \in {IF q.user_id = u /\ q.date = dt
                THEN [q EXCEPT !.daily_carbon_saved = DailyCarbon(u, dt)] ELSE q
                : q \in BagToSet(progress)} |-> 1]]

\* C4: when a run recomputes the daily value of a date that already has a
\* row to a different value, every later row of that month is recomputed in
\* the same run: by the daily aggregation, by the one-month recalculation
\* whichever of its days fail, and by the running-total repair once the
\* daily value is replaced.
CascadeOnRecompute ==
    \A u \in Users :
        /\ \A dt \in StaleDates(u) :
              /\ RecomputedAndCascaded(
                     calculate_user_daily_carbon(Database, u, dt).progress, u, dt)
              /\ RecomputedAndCascaded(
                     FixUsers(DailyReplaced(u, dt), UserSeq).progress, u, dt)
        /\ \A failed \in SUBSET AugustChoreDates(u) :
              \A dt \in (AugustChoreDates(u) \cap StaleDates(u)) \ failed :
                  RecomputedAndCascaded(
                      AugustLoop(Database, u, SetToSortedSeq(AugustChoreDates(u)),
                                 failed).progress, u, dt)

\* A date of the one-month recalculation whose stored daily value is out of
\* date while a later row of the month carries a running total built on it.
CascadeWitness ==
    \E u \in Users : \E dt \in AugustChoreDates(u) \cap StaleDates(u) :
        \E r \in BagToSet(progress) :
            /\ r.user_id = u /\ SameMonth(r.date, dt) /\ r.date > dt
            /\ \E p \in PreviousRows(progress, r) :
                  /\ p.date = dt
                  /\ r.cumulative_carbon_saved =
                         p.cumulative_carbon_saved + r.daily_carbon_saved

MonthKeys == {MonthKey(dt) : dt \in Dates}

MonthRows(rs, u, key) ==
    BagFilter(rs, LAMBDA r : r.user_id = u /\ MonthKey(r.date) = key)

\* C5: a rebuild that fails partway leaves, for every user and month, either
\* the rows stored before the run or the rows the complete rebuild writes.
RecomputeAllOrNothing ==
    LET new == MigrateUsers(Database, UserSeq, NoFailure).progress
    IN \A failAt \in [Users -> 1..(LastDate + 2)] :
          (\A u \in Users : failAt[u] \in FailPoints(u)) =>
              LET after == MigrateUsers(Database, UserSeq, failAt).progress
              IN \A u \in Users, key \in MonthKeys :
                    \/ MonthRows(after, u, key) = MonthRows(progress, u, key)
                    \/ MonthRows(after, u, key) = MonthRows(new, u, key)

\* C7: whenever the user has rows in the current month, the cached
\* current-month value is the running total of the latest of them.
CurrentMonthCacheIsLatest ==
    \A u \in Users :
        HasRowsInMonth(progress, u, today) =>
            users[u].current_month_carbon_saved = LatestCumulative(progress, u, today)

\* C6: when one rebuild commits while a repair run is between its reads and
\* its commit, the rows, user totals and summaries after the repair commits
\* are those of the two runs executed one after the other in some order, and
\* the rows satisfy the prefix-sum invariant.
OverlapSerialized ==
    (fix_run.phase = "done" /\ fix_run.judged) =>
        /\ fix_run.result \in fix_run.serial
        /\ PrefixSumInvariant

\* C9: the savings of an event are never negative; an event whose actual
\* intensity is above the worst-case intensity contributes exactly zero and
\* leaves the running total where it was.
SavingsNonNegative ==
    calc.events > 0 =>
        /\ calc.saved >= 0
        /\ calc.total = calc.before + calc.saved
        /\ calc.actual * calc.worst[2] > calc.worst[1] =>
               (calc.saved = 0 /\ calc.total = calc.before)

\* An event of a powered appliance whose actual intensity is above the
\* worst-case intensity found, after an event that saved something.
SavingsWitness ==
    /\ calc.events > 1
    /\ calc.before > 0
    /\ calc.kw > 0
    /\ calc.samples # <<>>
    /\ calc.actual * calc.worst[2] > calc.worst[1]

\* Windows of ceil(d / Cadence) consecutive samples.
CeilSlots(d) == (d + Cadence - 1) \div Cadence

\* C10: for a day with at least ceil(d / 10) samples, the worst-case
\* intensity either calculator returns is the largest mean over the windows
\* of ceil(d / 10) consecutive samples.
WorstWindowIsCeilMax ==
    (calc.events > 0 /\ Len(calc.samples) >= CeilSlots(calc.duration)) =>
        LET k == CeilSlots(calc.duration)
            means == {<<WindowSum(calc.samples, i, k), k>> :
                         i \in 1..(Len(calc.samples) - k + 1)}
        IN /\ \E m \in means : MeanEq(calc.worst, m)
           /\ \A m \in means : MeanLeq(m, calc.worst)

\* Grid points of the interval from start rounded down to the grid up to,
\* and not including, end.
GridPoints(start_time, end_time) ==
    {t \in RoundDown(start_time)..(end_time - 1) : t % Cadence = 0}

\* The values a grid point can resolve to in a series: the sample at the
\* point, else a nearest sample when it lies within the tolerance, else none.
ResolvesTo(series, t) ==
    LET exact == {i \in DOMAIN series : series[i].timestamp = t}
        nearest == {i \in DOMAIN series :
                       \A j \in DOMAIN series :
                           Abs(series[i].timestamp - t) <= Abs(series[j].timestamp - t)}
    IN IF exact # {} THEN {series[i].intensity : i \in exact}
       ELSE {series[i].intensity :
                i \in {k \in nearest : Abs(series[k].timestamp - t) <= Tolerance}}

\* The <<sum, count>> pairs of the values resolved over a set of grid points.
RECURSIVE ResolvedMeans(_, _)
ResolvedMeans(series, points) ==
    IF points = {} THEN {<<0, 0>>}
    ELSE LET t == CHOOSE p \in points : TRUE
             rest == ResolvedMeans(series, points \ {t})
         IN IF ResolvesTo(series, t) = {} THEN rest
            ELSE {<<m[1] + v, m[2] + 1>> : m \in rest, v \in ResolvesTo(series, t)}

\* C11: when a grid point of the chore's interval resolves, the estimate is
\* the mean of the values resolved at the grid points of the interval, a
\* point resolving to the sample at it, else to the nearest sample within 60
\* minutes, else to nothing.
EstimateIsMeanOfResolved ==
    (est.chores > 0 /\ est.by = "league" /\ ~est.raised) =>
        LET means == ResolvedMeans(est.series,
                                   GridPoints(est.chore.start_time, est.chore.end_time))
        IN (\E m \in means : m[2] > 0) =>
               \E m \in means : m[2] > 0 /\ MeanEq(est.actual, m)

\* The series has exactly one sample at timestamp t and it carries the value
\* of the last of the rows whose converted timestamp is t.
KeepsLatest(series, rows, convert(_), t) ==
    LET at == {i \in DOMAIN rows : convert(rows[i].timestamp) = t}
        latest == CHOOSE i \in at : \A j \in at : j <= i
    IN /\ Cardinality({k \in DOMAIN series : series[k].timestamp = t}) = 1
       /\ \A k \in DOMAIN series :
              series[k].timestamp = t => series[k].intensity = rows[latest].intensity

\* C12: for every timestamp of the file, the series the calculator loads
\* has exactly one sample at it, with the value of the row of that timestamp
\* that comes last in the file, and so has the file fix_timestamps writes
\* for every timestamp after its conversion.
SeriesKeepsLatest ==
    /\ \A i \in DOMAIN csv :
          /\ KeepsLatest(LoadCarbonData(csv), csv, LAMBDA t : t, csv[i].timestamp)
          /\ KeepsLatest(FixTimestamps(csv), csv, convert_x9_to_x0,
                         convert_x9_to_x0(csv[i].timestamp))
    /\ (est.chores > 0 /\ est.by = "league") => est.series = LoadCarbonData(csv)

\* A calculator has loaded a file with two rows of one timestamp of which the
\* later has the smaller value.
SeriesKeepsLatestWitness ==
    /\ est.chores > 0 /\ est.by = "league"
    /\ \E i, j \in DOMAIN csv :
          /\ i < j
          /\ csv[i].timestamp = csv[j].timestamp
          /\ csv[j].intensity < csv[i].intensity
          /\ \A k \in DOMAIN csv : k > j => csv[k].timestamp # csv[j].timestamp
          /\ \E k \in DOMAIN est.series : est.series[k] = csv[j]

\* C13: a calculator that finds no intensity data for the chore's interval
\* ends with an error and not with a savings value, so that a zero is never
\* what stands for missing data.
MissingDataIsAnError ==
    (est.chores > 0 /\ est.resolved = 0) => est.raised

\* Two samples of the series, both in the interval, more than the tolerance
\* apart and with no sample between them.
GapInside(series, start_time, end_time) ==
    \E i, j \in DOMAIN series :
        /\ start_time <= series[i].timestamp
        /\ series[j].timestamp <= end_time
        /\ series[j].timestamp - series[i].timestamp > Tolerance
        /\ \A k \in DOMAIN series :
              ~(series[i].timestamp < series[k].timestamp
                  /\ series[k].timestamp < series[j].timestamp)

\* C14: when the series has a gap longer than 60 minutes inside the chore's
\* interval, the estimator ends with an error and returns no estimate.
GapIsSignalled ==
    (est.chores > 0 /\ est.by = "league"
        /\ GapInside(est.series, est.chore.start_time, est.chore.end_time)) =>
        est.raised

\* C15: when the day has fewer samples than the window of ceil(d / 10)
\* samples, none included, the worst-case intensity a calculator uses is
\* the fallback constant.
ShortDayGivesFallback ==
    (/\ est.chores > 0 /\ ~est.raised
     /\ est.by = "template" => est.resolved > 0
     /\ Len(est.samples) < CeilSlots(est.chore.duration_minutes)) =>
        MeanEq(est.worst, <<DefaultWorstCase, 1>>)

\* C16: when no stepped time of the chore's interval resolves to a value,
\* the series being empty included, the estimate is the fallback constant
\* and the estimator does not raise.
NothingResolvedGivesFallback ==
    (est.chores > 0 /\ est.resolved = 0) =>
        /\ ~est.raised
        /\ MeanEq(est.actual, <<DefaultIntensity, 1>>)

\* max(0, worst - actual) * power_draw_kw * duration_hours as a fraction, the
\* intensities being means <<sum, count>> and the power tenths of a kW.
ExpectedSavings(worst, actual, appliance_kw, duration_minutes) ==
    LET difference == <<worst[1] * actual[2] - actual[1] * worst[2],
                        worst[2] * actual[2]>>
        clamped == IF difference[1] > 0 THEN difference ELSE <<0, 1>>
    IN Lowest(<<clamped[1] * appliance_kw * duration_minutes, clamped[2] * 10 * 60>>)

\* C17: the savings a calculator gets for a chore from its worst-case and
\* actual intensities are max(0, worst - actual) * power * hours, and for
\* 2.0 kW, 60 minutes, actual 300 and worst case 500 both calculators get 400.
SavingsFormula ==
    /\ (est.chores > 0 /\ ~est.raised /\ est.resolved > 0) =>
          est.saved = ExpectedSavings(est.worst, est.actual, est.appliance_kw,
                                      est.chore.duration_minutes)
    /\ ClampSaved(SavedFraction(<<500, 1>>, <<300, 1>>, 20, 60)) = <<400, 1>>
    /\ ClampSaved(EmissionsDifference(<<500, 1>>, <<300, 1>>, 20, 60)) = <<400, 1>>

\* A chore of a listed appliance whose actual intensity is below the worst
\* case, with savings above zero.
SavingsFormulaWitness ==
    /\ est.chores > 0 /\ ~est.raised /\ est.resolved > 0
    /\ est.chore.appliance_type \in DOMAIN APPLIANCE_POWER
    /\ est.worst[1] * est.actual[2] > est.actual[1] * est.worst[2]
    /\ est.saved[1] > 0

\* C18: for an interval with end after start, on a series with samples, the
\* times the estimator steps through are the grid points from start rounded
\* down to the grid up to, and not including, end.
SteppedGridIsHalfOpen ==
    (est.chores > 0 /\ est.by = "league" /\ ~est.raised
        /\ est.chore.end_time > est.chore.start_time) =>
        {est.stepped[i] : i \in DOMAIN est.stepped}
            = GridPoints(est.chore.start_time, est.chore.end_time)

\* C19: a chore of an appliance type the power table does not list is
\* computed with a draw of 1.0 kW.
UnlistedApplianceDraw ==
    (est.chores > 0 /\ est.chore.appliance_type \notin DOMAIN APPLIANCE_POWER) =>
        est.appliance_kw = 10

\* C20: for a chore with end_time <= start_time the calculator ends with an
\* error and computes no savings value.
InvertedIntervalRejected ==
    (est.chores > 0 /\ est.by = "league"
        /\ est.chore.end_time <= est.chore.start_time) => est.raised

\* The summaries of the month in db carry the sum of the month's daily rows.
SummaryIsRowSum(db, u, key) ==
    \A m \in BagToSet(SummariesOf(db.summaries, u, key)) :
        m.total_carbon_saved =
            BagSum(MonthRows(db.progress, u, key), LAMBDA r : r.daily_carbon_saved)

\* C8: after either promotion finalizes the month that has ended, the
\* summary of that month carries the sum of the user's daily rows of that
\* month.
FinalizedSummaryIsRowSum ==
    \A u \in Users :
        LET key == MonthKey(MonthStart(today) - 1)
        IN /\ SummaryIsRowSum(carbon_check_and_promote_user(Database, u), u, key)
           /\ DayOf(today) = 1 =>
                 \A saving \in [BagToSet(MonthChores(u, key)) -> LeagueSavings] :
                     SummaryIsRowSum(
                         league_check_and_promote_user(Database, user_tasks, u, saving),
                         u, key)

\* A second user, who has no chores, holding copies of the rows, summaries
\* and record of user u.
OtherUser == "u2"

OwnedBy(rs, u) == BagFilter(rs, LAMBDA r : r.user_id = u)

WithOtherUser(db, u) ==
    [progress |-> db.progress
                    (+) BagOfAll(LAMBDA r : [r EXCEPT !.user_id = OtherUser],
                                 OwnedBy(db.progress, u)),
     users |-> (OtherUser :> db.users[u]) @@ db.users,
     summaries |-> db.summaries
                     (+) BagOfAll(LAMBDA m : [m EXCEPT !.user_id = OtherUser],
                                  OwnedBy(db.summaries, u))]

\* A run that turns before into after leaves what the other user owns as it
\* was, and gives user u what the run gives without the other user's data.
TouchesOnly(before, after, alone, u) ==
    /\ OwnedBy(after.progress, OtherUser) = OwnedBy(before.progress, OtherUser)
    /\ OwnedBy(after.summaries, OtherUser) = OwnedBy(before.summaries, OtherUser)
    /\ after.users[OtherUser] = before.users[OtherUser]
    /\ OwnedBy(after.progress, u) = OwnedBy(alone.progress, u)
    /\ OwnedBy(after.summaries, u) = OwnedBy(alone.summaries, u)
    /\ after.users[u] = alone.users[u]

OneRowPerUserAndDate ==
    \A u \in Users : \A dt \in Dates :
        BagCardinality(RowsOn(progress, u, dt)) <= 1

\* A user whose chores on two dates each have their one row, after chores
\* were logged on a date that already had a row.
OneRowPerUserAndDateWitness ==
    \E u \in Users : \E d1, d2 \in Dates :
        /\ d1 < d2
        /\ BagCardinality(ChoresOn(u, d1)) > 1
        /\ BagCardinality(RowsOn(progress, u, d1)) = 1
        /\ BagCardinality(RowsOn(progress, u, d2)) = 1
        /\ \A r \in BagToSet(RowsOn(progress, u, d1)) :
              r.daily_carbon_saved = DailyCarbon(u, d1)

\* C23: after any number of finalization and promotion runs, every month a
\* user has a summary for has exactly one summary row.
OneSummaryPerUserAndMonth ==
    \A m \in BagToSet(summaries) :
        BagCardinality(SummariesOf(summaries, m.user_id, <<m.year, m.month>>)) = 1

\* C24: every run of the daily scheduler calculates the day before the run
\* date; once the run is over it has run the promotion check exactly if the
\* run date is the 1st of a month, and the check was for the month before;
\* the manual runner with its default arguments decides the same.
DailyRunTargetsYesterday ==
    /\ sched.phase # "idle" =>
          /\ sched.calculated = sched.run_date - 1
          /\ sched.promotion => sched.checked = MonthKey(sched.run_date - DaysPerMonth)
          /\ sched.promotion => DayOf(sched.run_date) = 1
          /\ sched.phase = "done" => (sched.promotion <=> DayOf(sched.run_date) = 1)
    /\ today > 0 => (should_run_promotion(yesterday(today), FALSE) <=> DayOf(today) = 1)

\* A run on the 1st of a month that has run its promotion check.
DailyRunTargetsYesterdayWitness ==
    /\ sched.phase = "done"
    /\ sched.promotion
    /\ sched.run_date = today
    /\ \E u \in Users : RowsOn(progress, u, today - 1) # EmptyBag

\* C28: a promotion check has run only in a scheduler run whose daily
\* calculation completed, so that the summary it wrote carries the month's
\* rows with the last day's among them; a run whose calculation raised
\* ended without a promotion check.
PromotionFollowsCalculation ==
    /\ sched.phase = "failed" => ~sched.promotion /\ ~sched.completed
    /\ sched.phase \in {"calculated", "done"} => sched.completed
    /\ (sched.phase = "done" /\ sched.promotion) =>
          \A u \in Users :
             BagCardinality(SummariesOf(summaries, u, sched.checked)) = 1 =>
                \A m \in BagToSet(SummariesOf(summaries, u, sched.checked)) :
                   m.total_carbon_saved =
                      DailySumBetween(progress, u, MonthStart(sched.calculated),
                                      sched.calculated)

\* A promotion check on the 1st that read a month whose last day had chores.
PromotionFollowsCalculationWitness ==
    /\ sched.phase = "done"
    /\ sched.promotion
    /\ \E u \in Users :
          /\ RowsOn(progress, u, sched.calculated) # EmptyBag
          /\ \E m \in BagToSet(SummariesOf(summaries, u, sched.checked)) :
                m.total_carbon_saved > 0

\* The sum of the daily values of the rows of user u that fall in the calendar
\* month of today.
CurrentMonthRowSum(rs, u) ==
    BagSum(BagFilter(rs, LAMBDA r : r.user_id = u /\ MonthKey(r.date) = MonthKey(today)),
           LAMBDA r : r.daily_carbon_saved)

\* C25: from any state, either repair routine leaves the user's current-month
\* saving equal to the sum of the daily values of the user's rows of the
\* current calendar month, and changes nothing else.
RepairRestoresMonthSum ==
    \A u \in Users :
        /\ recalculate_current_month(Database, u)
             = [Database EXCEPT !.users[u].current_month_carbon_saved =
                                    CurrentMonthRowSum(progress, u)]
        /\ restore_carbon_from_daily_progress(Database, u)
             = [Database EXCEPT !.users[u].current_month_carbon_saved =
                                    CurrentMonthRowSum(progress, u)]

\* A repaired user with rows in an earlier month and in the current one.
RepairRestoresMonthSumWitness ==
    \E u \in Users :
        /\ users[u].current_month_carbon_saved = CurrentMonthRowSum(progress, u)
        /\ CurrentMonthRowSum(progress, u) > 0
        /\ \E r \in BagToSet(progress) : r.user_id = u /\ r.date < MonthStart(today)

\* C26: the answer for a user and date that have no computed row differs
\* from the answer for the same user and date once a saving of zero has been
\* computed for them.
NotCalculatedIsNotZero ==
    \A u \in Users : \A dt \in 0..today :
        RowsOn(progress, u, dt) = EmptyBag =>
            get_daily_carbon(progress, u, dt)
              # get_daily_carbon(progress (+) SetToBag({ProgressRow(u, dt, 0, 0)}), u, dt)

\* C27: the total generation of every row of the regional file is the sum of
\* the row's generation over the fuel types other than Storage.
TotalExcludesStorage ==
    \A i \in DOMAIN region_csv :
        region_csv[i].Total_Generation =
            SumFn([f \in DOMAIN region_csv[i].fuels \ {"Storage"} |->
                      region_csv[i].fuels[f]])

\* The rows of rs with their running totals blanked.
DailyValues(rs) == BagOfAll(LAMBDA r : [r EXCEPT !.cumulative_carbon_saved = 0], rs)

\* C29: from any stored running totals, the repair leaves every row that is
\* the first of its user and calendar month with its own daily value as
\* running total, every later row of the month with the running total of the
\* row before it plus its own daily value, and every daily value as it was.
FixEstablishesPrefixSum ==
    LET db == FixUsers(Database, UserSeq)
    IN /\ DailyValues(db.progress) = DailyValues(progress)
       /\ \A r \in BagToSet(db.progress) :
             LET before == {q \in BagToSet(db.progress) :
                               /\ q.user_id = r.user_id
                               /\ MonthKey(q.date) = MonthKey(r.date)
                               /\ q.date < r.date}
             IN r.cumulative_carbon_saved =
                   r.daily_carbon_saved
                     + (IF before = {} THEN 0
                        ELSE (CHOOSE q \in before :
                                 \A x \in before : x.date <= q.date)
                                .cumulative_carbon_saved)

\* C30: no step of a rebuild, a promotion check or a finalization leaves a
\* user in a league below the one the user held before the step.
LeaguesNeverDemote ==
    [][\A u \in Users :
          LeagueIndex(users'[u].current_league) >= LeagueIndex(users[u].current_league)]_vars

\* The league service's check for user u run twice in a row, with the task
\* reset in between as process_all_users does it.
CheckedTwice(u) ==
    LET saving == [c \in BagToSet(MonthChores(u, CheckedMonth)) |-> 0]
        once == league_check_and_promote_user(Database, user_tasks, u, saving)
    IN league_check_and_promote_user(once, reset_user_tasks(once, user_tasks, u),
                                     u, saving)

\* C31: two promotion checks of the same month, one after the other, raise
\* the user's league by at most one step in total.
OneStepPerMonth ==
    \A u \in Users :
        /\ LeagueIndex(CheckedTwice(u).users[u].current_league)
             <= LeagueIndex(users[u].current_league) + 1
        /\ LeagueIndex(carbon_check_and_promote_user(
                           carbon_check_and_promote_user(Database, u), u)
                         .users[u].current_league)
             <= LeagueIndex(users[u].current_league) + 1

\* C32: every summary a promotion check has written says the league was
\* upgraded exactly when its league at the start of the month differs from
\* its league at the end of the month.
UpgradedIffLeaguesDiffer ==
    \A m \in BagToSet(summaries) :
        m.league_upgraded <=> (m.league_at_month_start # m.league_at_month_end)

\* The number of tasks of the current month that user u has completed.
CompletedThisMonth(ts, u) ==
    Cardinality({t \in MonthTasks(ts, u, MonthKey(today)) : t.completed})

\* C38: a task completion, a task un-completion or a promotion check that
\* starts with the user's monthly counter equal to the number of the user's
\* completed tasks of the current month ends with the two equal, and the
\* counter is never negative.
CounterMatchesCompletedTasks ==
    [][\A u \in Users :
          /\ users'[u].current_month_tasks_completed >= 0
          /\ (/\ today' = today
              /\ users[u].current_month_tasks_completed
                   = CompletedThisMonth(user_tasks, u))
                => users'[u].current_month_tasks_completed
                     = CompletedThisMonth(user_tasks', u)]_vars

\* C33: while every month has one summary, the user's lifetime total is the
\* sum of the totals of the user's monthly summaries, however often the
\* monthly and promotion jobs have run.
LifetimeIsSumOfMonths ==
    \A u \in Users :
        (\A m \in BagToSet(summaries) : summaries[m] = 1
             /\ BagCardinality(SummariesOf(summaries, m.user_id, <<m.year, m.month>>)) = 1)
          => users[u].total_carbon_saved
               = BagSum(OwnedBy(summaries, u), LAMBDA m : m.total_carbon_saved)

\* Every carbon field of db multiplied by the factor.
Scaled(db) ==
    [users |-> [u \in DOMAIN db.users |->
                   [db.users[u] EXCEPT !.total_carbon_saved = @ * GramsPerKg,
                                       !.current_month_carbon_saved = @ * GramsPerKg]],
     progress |-> BagOfAll(LAMBDA r : [r EXCEPT
                                         !.daily_carbon_saved = @ * GramsPerKg,
                                         !.cumulative_carbon_saved = @ * GramsPerKg],
                           db.progress),
     summaries |-> BagOfAll(LAMBDA m : [m EXCEPT !.total_carbon_saved = @ * GramsPerKg],
                            db.summaries)]

\* The equalities between stored values of db: the rows that follow the
\* prefix-sum rule, the summaries that equal the sum of their month's rows,
\* and the users whose cache is the latest running total of the month.
EqualitiesOf(db) ==
    [prefix |-> {r \in BagToSet(db.progress) :
                    \A q \in PreviousRows(db.progress, r) :
                       r.cumulative_carbon_saved
                         = q.cumulative_carbon_saved + r.daily_carbon_saved},
     first |-> {r \in BagToSet(db.progress) :
                    PreviousRows(db.progress, r) = {}
                      /\ r.cumulative_carbon_saved = r.daily_carbon_saved},
     monthly |-> {m \in BagToSet(db.summaries) :
                    m.total_carbon_saved
                      = BagSum(BagFilter(db.progress,
                                         LAMBDA r : r.user_id = m.user_id
                                            /\ MonthKey(r.date) = <<m.year, m.month>>),
                               LAMBDA r : r.daily_carbon_saved)},
     cache |-> {u \in DOMAIN db.users :
                    HasRowsInMonth(db.progress, u, today)
                      /\ db.users[u].current_month_carbon_saved
                           = LatestCumulative(db.progress, u, today)}]

\* The tables hold values of the kilogram scale, which the conversion is for.
InKilograms ==
    /\ \A u \in Users : /\ users[u].total_carbon_saved < GramsPerKg
                         /\ users[u].current_month_carbon_saved < GramsPerKg
    /\ \A r \in BagToSet(progress) : r.cumulative_carbon_saved < GramsPerKg
    /\ \A m \in BagToSet(summaries) : m.total_carbon_saved < GramsPerKg

\* C39: a conversion run either multiplies every carbon field of the three
\* tables by 1000 or, when a statement raises, changes nothing; the rows,
\* summaries and users that satisfied the prefix-sum, monthly-total and
\* cache equalities before the run are the ones that satisfy them after it.
ConversionIsAllOrNothing ==
    \A failAt \in 0..4 :
        LET db == IF InKilograms THEN convert_database_to_grams(Database, failAt)
                  ELSE Database
        IN /\ failAt = 0 /\ InKilograms => db = Scaled(Database)
           /\ failAt # 0 => db = Database
           /\ failAt = 0 /\ InKilograms =>
                 /\ Cardinality(EqualitiesOf(db).prefix)
                      = Cardinality(EqualitiesOf(Database).prefix)
                 /\ Cardinality(EqualitiesOf(db).first)
                      = Cardinality(EqualitiesOf(Database).first)
                 /\ Cardinality(EqualitiesOf(db).monthly)
                      = Cardinality(EqualitiesOf(Database).monthly)
                 /\ EqualitiesOf(db).cache = EqualitiesOf(Database).cache

\* Tables converted to grams: a user, a row after the first of its month and
\* a summary, all with savings.
ConversionIsAllOrNothingWitness ==
    /\ \E u \in Users : users[u].total_carbon_saved >= GramsPerKg
    /\ \E r \in BagToSet(progress) :
          /\ r.daily_carbon_saved >= GramsPerKg
          /\ PreviousRows(progress, r) # {}
    /\ \E m \in BagToSet(summaries) : m.total_carbon_saved >= GramsPerKg

\* The timestamps of the rows of a regional file.
StampsOf(file) == {file[i].Timestamp : i \in DOMAIN file}

\* C34: once two overlapping pipeline runs for the same 10-minute timestamp
\* have both finished, with no weather run beside them, the regional file
\* holds exactly one row of that timestamp.
OneRowPerTimestamp ==
    (/\ \A p \in Pipelines : runs[p].pc = "done"
     /\ runs["weather"].pc = "idle"
     /\ runs["p1"].row_data.Timestamp = runs["p2"].row_data.Timestamp)
    => Cardinality({i \in DOMAIN region_csv :
                       region_csv[i].Timestamp = runs["p1"].row_data.Timestamp}) = 1

\* C35: once one pipeline run and the weather run have both finished, neither
\* having failed, the regional file holds the row of the pipeline's
\* timestamp, the weather values of the weather run, and every timestamp
\* either of them read.
NoUpdateLost ==
    (/\ runs["p1"].pc = "done" /\ ~runs["p1"].raised
     /\ runs["weather"].pc = "done"
     /\ runs["p2"].pc = "idle")
    => /\ runs["p1"].row_data.Timestamp \in StampsOf(region_csv)
       /\ \E i \in DOMAIN region_csv :
             region_csv[i].AirTemperature = runs["weather"].AirTemperature
       /\ StampsOf(runs["p1"].existing_df) \subseteq StampsOf(region_csv)
       /\ StampsOf(runs["weather"].df) \subseteq StampsOf(region_csv)

\* The timestamps of the rows of a generator tracking file.
GenStampsOf(file) == {file.rows[i][1].value : i \in DOMAIN file.rows}

\* C36: a run of update_regional_data or of update_generator_data leaves
\* every timestamp that had a row before it with a row.
RunKeepsStoredRows ==
    [][/\ StampsOf(region_csv) \subseteq StampsOf(region_csv')
       /\ GenStampsOf(gen_csv) \subseteq GenStampsOf(gen_csv')]_vars

\* C37: every row of the generator tracking file has one cell for each
\* column of the header, and the cell under a column holds the value that
\* was recorded for that column.
RowsAlignedWithHeader ==
    \A i \in DOMAIN gen_csv.rows :
        /\ Len(gen_csv.rows[i]) = Len(gen_csv.header)
        /\ \A k \in DOMAIN gen_csv.header :
              gen_csv.rows[i][k].column = gen_csv.header[k]

====
